---- MODULE Spec2Model ----
(***************************************************************************)
(* Model of the Ludo backend: the room/session directory (RoomsService)    *)
(* and the rules engine (LudoGameService) it delegates to.                 *)
(*                                                                         *)
(* Fields that no handler ever reads back (player name, joinedAt, room id, *)
(* createdAt, move timestamps) are left out of the records.  Array indices *)
(* stored in the state (currentTurnPlayerIndex) keep the code's 0-based    *)
(* values; TLA+ sequences are 1-based, so players[i] is players[i + 1].    *)
(***************************************************************************)
EXTENDS Integers, Sequences, FiniteSets, TLC

\* ---------------------------------------------------------------- bounds
\* Moves recorded in one game's moveHistory before the model stops moving.
MaxMoves == 1
\* The clock (in minutes) stops advancing here.
MaxTime == 1

\* ------------------------------------------------------- program constants
\* enum PlayerColor, in declaration order (Object.values order).
PlayerColor == <<"red", "blue", "green", "yellow">>
ColorSet == {PlayerColor[i] : i \in 1..Len(PlayerColor)}
\* CreateRoomDto.maxPlayers: @Min(2) @Max(4).
MinCapacity == 2
MaxCapacity == 4

WAITING == "waiting"
PLAYING == "playing"
FINISHED == "finished"

VARIABLES
    rooms,          \* RoomsService.rooms: code -> Room
    playerToRoom,   \* RoomsService.playerToRoom: sessionId -> code
    now,            \* new Date(), in minutes
    res,            \* outcome of the last call: [op, err]
    httpSession,    \* express-session store: sessionId -> [roomCode, isAdmin]
    socketToSession,\* RoomsGateway.socketToSession: socket id -> sessionId
    socketRooms,    \* socket.io adapter: socket id -> room channels joined
    emitted         \* what the call in progress has emitted, in order

\* The transport layer's state: the REST controller's sessions and the
\* WebSocket gateway's sockets.  A RoomsService method never touches it.
web == <<httpSession, socketToSession, socketRooms, emitted>>

vars == <<rooms, playerToRoom, now, res, web>>

\* ------------------------------------------------------------- helpers
\* A variant that deletes nothing.
MapWithout_Keeps(m, ks) == m

\* Map.delete / restriction of a Map to the keys outside ks.
MapWithout(m, ks) == [k \in (DOMAIN m) \ ks |-> m[k]]
\* Map.set
MapSet(m, k, v) == [x \in (DOMAIN m) \cup {k} |-> IF x = k THEN v ELSE m[x]]

\* Array.prototype.findIndex on the players list: the 1-based index of the
\* first player of the session, 0 when there is none (-1 in the code).
FindPlayerIndex(players, s) ==
    IF \E i \in 1..Len(players) : players[i].sessionId = s
    THEN CHOOSE i \in 1..Len(players) :
            /\ players[i].sessionId = s
            /\ \A j \in 1..(i - 1) : players[j].sessionId # s
    ELSE 0

\* Array.prototype.splice(i, 1)
RemoveAt(seq, i) == [j \in 1..(Len(seq) - 1) |-> IF j < i THEN seq[j] ELSE seq[j + 1]]

\* The optional Room.gameState is a sequence of length 0 (undefined) or 1.
NoGame == <<>>
HasGame(room) == Len(room.gameState) = 1
Game(room) == room.gameState[1]

\* Calls run one at a time, each to completion (the single-threaded event
\* loop): a handler starts only when no outcome is waiting to be returned.
Idle == [op |-> "none", err |-> "none"]
Ok(op) == [op |-> op, err |-> "ok"]
Err(op, e) == [op |-> op, err |-> e]

\* A call that throws: nothing but the recorded outcome changes.
Throws(op, e) ==
    /\ res' = Err(op, e)
    /\ UNCHANGED <<rooms, playerToRoom, now>>

\* uuidv4(): a player's id.  An id is minted together with the player, for one
\* session, and is only ever compared with the ids of players of the same room,
\* so it is rendered as a tag of the session the player was created for.
uuidv4(sessionId) == <<"player", sessionId>>

\* ------------------------------------------------------------ rules engine
\* LudoGameService board constants.
START_POS == [red |-> 0, green |-> 13, yellow |-> 27, blue |-> 41]
GATEWAY == [red |-> 51, green |-> 25, yellow |-> 39, blue |-> 46]
SAFE_SQUARES == {0, 8, 13, 21, 27, 35, 41, 49}

\* Token.position values with a meaning of their own.
HOME == -1
FINISH == 57
\* calculateNewPosition's null.
NoMove == -2
\* diceValue: number | null.  null is written 0 (no face of the die is 0, and
\* the code's own test `!gameState.diceValue` treats the two alike).
NoDice == 0
\* winner: PlayerColor | null.
NoWinner == "null"
\* MoveRecord.capturedTokenId when nothing was captured (undefined).
NoCapture == <<>>

\* Token ids `${color}-${i}` are the pairs <<color, i>>.
TokenId(color, i) == <<color, i>>

\* A variant that gives a player three tokens instead of four.
TokensOf_Three(player) ==
    [i \in 1..3 |-> [id |-> TokenId(player.color, i - 1), color |-> player.color,
                     position |-> HOME, isInHome |-> TRUE,
                     isInHomeStretch |-> FALSE, isFinished |-> FALSE]]

TokensOf(player) ==
    [i \in 1..4 |-> [id |-> TokenId(player.color, i - 1), color |-> player.color,
                     position |-> HOME, isInHome |-> TRUE,
                     isInHomeStretch |-> FALSE, isFinished |-> FALSE]]

RECURSIVE AllTokens(_)
AllTokens(players) ==
    IF Len(players) = 0 THEN <<>>
    ELSE TokensOf(Head(players)) \o AllTokens(Tail(players))

initializeGame(players) ==
    [currentTurnPlayerIndex |-> 0,
     diceValue |-> NoDice,
     canRollDice |-> TRUE,
     consecutiveSixes |-> 0,
     tokens |-> AllTokens(players),
     winner |-> NoWinner,
     moveHistory |-> <<>>,
     playerColorOrder |-> [i \in 1..Len(players) |-> players[i].color],
     validMoves |-> <<>>]

\* A variant that does not wrap around the ring.
stepsFromTo_NoWrap(from, to) == to - from

stepsFromTo(from, to) == IF to >= from THEN to - from ELSE 52 - from + to

\* A variant that lets a token leave Home on any face.
calculateNewPosition_HomeAnyFace(token, diceValue) ==
    IF token.isInHome THEN START_POS[token.color]
    ELSE IF token.isFinished THEN NoMove
    ELSE IF token.isInHomeStretch
    THEN (IF token.position + diceValue > 57 THEN NoMove ELSE token.position + diceValue)
    ELSE LET stepsToGateway == stepsFromTo(token.position, GATEWAY[token.color])
         IN IF diceValue <= stepsToGateway
            THEN (token.position + diceValue) % 52
            ELSE IF 52 + (diceValue - stepsToGateway - 1) > 56 THEN NoMove
            ELSE 52 + (diceValue - stepsToGateway - 1)

\* A variant that lets an overshoot in the lane finish the token.
calculateNewPosition_Overshoot(token, diceValue) ==
    IF token.isInHome
    THEN (IF diceValue = 6 THEN START_POS[token.color] ELSE NoMove)
    ELSE IF token.isFinished THEN NoMove
    ELSE IF token.isInHomeStretch
    THEN (IF token.position + diceValue >= 57 THEN 57 ELSE token.position + diceValue)
    ELSE LET stepsToGateway == stepsFromTo(token.position, GATEWAY[token.color])
         IN IF diceValue <= stepsToGateway
            THEN (token.position + diceValue) % 52
            ELSE IF 52 + (diceValue - stepsToGateway - 1) > 56 THEN NoMove
            ELSE 52 + (diceValue - stepsToGateway - 1)

calculateNewPosition(token, diceValue) ==
    IF token.isInHome
    THEN (IF diceValue = 6 THEN START_POS[token.color] ELSE NoMove)
    ELSE IF token.isFinished THEN NoMove
    ELSE IF token.isInHomeStretch
    THEN LET next == token.position + diceValue IN
         IF next = 57 THEN 57 ELSE IF next > 57 THEN NoMove ELSE next
    ELSE LET gateway == GATEWAY[token.color]
             stepsToGateway == stepsFromTo(token.position, gateway)
         IN IF diceValue <= stepsToGateway
            THEN LET rawNew == token.position + diceValue IN
                 IF rawNew > 51 THEN rawNew - 52 ELSE rawNew
            ELSE LET stretchPos == 52 + (diceValue - stepsToGateway - 1) IN
                 IF stretchPos > 56 THEN NoMove ELSE stretchPos

\* The ids, in token order, of the color's unfinished tokens that can move.
computeValidMoves(gameState, playerColor, diceValue) ==
    LET movable == SelectSeq(gameState.tokens,
                     LAMBDA t : /\ t.color = playerColor
                                /\ ~t.isFinished
                                /\ calculateNewPosition(t, diceValue) # NoMove)
    IN [i \in 1..Len(movable) |-> movable[i].id]

\* A variant that does not look whether a dice value is pending.
getValidMoves_AnyDice(gameState, playerColor) ==
    computeValidMoves(gameState, playerColor, gameState.diceValue)

getValidMoves(gameState, playerColor) ==
    IF gameState.diceValue = NoDice THEN <<>>
    ELSE computeValidMoves(gameState, playerColor, gameState.diceValue)

getCurrentPlayerColor(gameState) ==
    gameState.playerColorOrder[gameState.currentTurnPlayerIndex + 1]

passTurn(gameState) ==
    [gameState EXCEPT
        !.currentTurnPlayerIndex = (@ + 1) % Len(gameState.playerColorOrder),
        !.diceValue = NoDice,
        !.canRollDice = TRUE,
        !.consecutiveSixes = 0,
        !.validMoves = <<>>]

\* The first color, in order of first appearance among the tokens, all of
\* whose tokens are finished.
checkWinner(tokens) ==
    LET done(c) == \A i \in 1..Len(tokens) : tokens[i].color = c => tokens[i].isFinished
        hits == {i \in 1..Len(tokens) : done(tokens[i].color)}
    IN IF hits = {} THEN NoWinner
       ELSE tokens[CHOOSE i \in hits : \A j \in hits : i <= j].color

\* A variant that never forces the roll below six.
DiceFaces_Unforced(gameState) == 1..6

\* The faces Math.random() can produce for this state.
DiceFaces(gameState) == IF gameState.consecutiveSixes >= 2 THEN 1..5 ELSE 1..6

\* A variant that lets a roll through whether or not one is allowed.
RollDiceError_Never(gameState) == "ok"

\* LudoGameService.rollDice: the exception it throws ("ok" for none) and the
\* state it returns for the face diceValue.
RollDiceError(gameState) == IF ~gameState.canRollDice THEN "CannotRoll" ELSE "ok"

\* A variant that keeps the rolled value also when no token can move.
RollDiceResult_NoPass(gameState, diceValue) ==
    [gameState EXCEPT !.diceValue = diceValue,
                      !.canRollDice = FALSE,
                      !.validMoves = computeValidMoves(gameState,
                                        getCurrentPlayerColor(gameState), diceValue)]

RollDiceResult(gameState, diceValue) ==
    LET stateWithDice == [gameState EXCEPT !.diceValue = diceValue,
                                           !.canRollDice = FALSE,
                                           !.validMoves = <<>>]
        validMoves == computeValidMoves(stateWithDice,
                          getCurrentPlayerColor(gameState), diceValue)
    IN IF Len(validMoves) = 0
       THEN passTurn(stateWithDice)
       ELSE [stateWithDice EXCEPT !.validMoves = validMoves]

\* Array.prototype.findIndex on the tokens (0 for none).
FindToken(tokens, tokenId) ==
    IF \E i \in 1..Len(tokens) : tokens[i].id = tokenId
    THEN CHOOSE i \in 1..Len(tokens) :
            tokens[i].id = tokenId /\ \A j \in 1..(i - 1) : tokens[j].id # tokenId
    ELSE 0

SeqContains(seq, x) == \E i \in 1..Len(seq) : seq[i] = x

\* A variant that does not ask whether the token is a legal move.
MoveTokenError_NoLegalCheck(gameState, tokenId) ==
    IF gameState.diceValue = NoDice THEN "DiceNotRolled"
    ELSE IF FindToken(gameState.tokens, tokenId) = 0 THEN "TokenNotFound"
    ELSE IF gameState.tokens[FindToken(gameState.tokens, tokenId)].color
               # getCurrentPlayerColor(gameState)
    THEN "NotYourToken"
    ELSE "ok"

\* LudoGameService.moveToken: the exception it throws ("ok" for none).
MoveTokenError(gameState, tokenId) ==
    IF gameState.diceValue = NoDice THEN "DiceNotRolled"
    ELSE IF FindToken(gameState.tokens, tokenId) = 0 THEN "TokenNotFound"
    ELSE LET token == gameState.tokens[FindToken(gameState.tokens, tokenId)] IN
         IF token.color # getCurrentPlayerColor(gameState) THEN "NotYourToken"
         ELSE IF ~SeqContains(gameState.validMoves, tokenId) THEN "NotValidMove"
         ELSE IF calculateNewPosition(token, gameState.diceValue) = NoMove
         THEN "InvalidMove"
         ELSE "ok"

\* A variant that captures on the safe cells too.
CapturedIndex_NoSafe(tokens, token, newPosition) ==
    LET hit(t) == /\ t.position = newPosition
                  /\ t.color # token.color
                  /\ ~t.isInHomeStretch /\ ~t.isFinished /\ ~t.isInHome
    IN IF /\ newPosition >= 0 /\ newPosition <= 51
          /\ \E i \in 1..Len(tokens) : hit(tokens[i])
       THEN CHOOSE i \in 1..Len(tokens) :
               hit(tokens[i]) /\ \A j \in 1..(i - 1) : ~hit(tokens[j])
       ELSE 0

\* The index of the token the move captures (0 for none): the first token of
\* another color standing on the destination, when that is an unsafe ring cell.
CapturedIndex(tokens, token, newPosition) ==
    LET hit(t) == /\ t.position = newPosition
                  /\ t.color # token.color
                  /\ ~t.isInHomeStretch /\ ~t.isFinished /\ ~t.isInHome
    IN IF /\ newPosition >= 0 /\ newPosition <= 51
          /\ newPosition \notin SAFE_SQUARES
          /\ \E i \in 1..Len(tokens) : hit(tokens[i])
       THEN CHOOSE i \in 1..Len(tokens) :
               hit(tokens[i]) /\ \A j \in 1..(i - 1) : ~hit(tokens[j])
       ELSE 0

\* A variant whose capture moves the token Home but leaves its flags.
MoveTokenResult_CaptureKeepsFlags(gameState, tokenId) ==
    LET tokenIndex == FindToken(gameState.tokens, tokenId)
        token == gameState.tokens[tokenIndex]
        newPosition == calculateNewPosition(token, gameState.diceValue)
        oldPosition == token.position
        ci == CapturedIndex(gameState.tokens, token, newPosition)
        capturedTokenId == IF ci = 0 THEN NoCapture ELSE gameState.tokens[ci].id
        afterCapture ==
            IF ci = 0 THEN gameState.tokens
            ELSE [gameState.tokens EXCEPT ![ci] =
                    [@ EXCEPT !.position = HOME]]
        updatedTokens ==
            [afterCapture EXCEPT ![tokenIndex] =
                [token EXCEPT !.position = newPosition,
                              !.isInHome = FALSE,
                              !.isInHomeStretch = (newPosition >= 52 /\ newPosition <= 56),
                              !.isFinished = (newPosition = 57)]]
        moveHistory == Append(gameState.moveHistory,
                          [playerColor |-> token.color, tokenId |-> token.id,
                           from |-> oldPosition, to |-> newPosition,
                           capturedTokenId |-> capturedTokenId])
        winner == checkWinner(updatedTokens)
        rolledSix == gameState.diceValue = 6
        didCapture == capturedTokenId # NoCapture
        shouldContinueTurn == (rolledSix \/ didCapture) /\ winner = NoWinner
        newConsecutiveSixes == IF rolledSix THEN gameState.consecutiveSixes + 1 ELSE 0
        moved == [gameState EXCEPT !.tokens = updatedTokens,
                                   !.moveHistory = moveHistory,
                                   !.winner = winner,
                                   !.validMoves = <<>>]
    IN IF shouldContinueTurn /\ newConsecutiveSixes < 3
       THEN [moved EXCEPT !.diceValue = NoDice,
                          !.canRollDice = TRUE,
                          !.consecutiveSixes = newConsecutiveSixes]
       ELSE passTurn(moved)

\* LudoGameService.moveToken: the state it returns when it does not throw.
\* A variant that passes the turn after a capture made with a six.
MoveTokenResult_XorTurn(gameState, tokenId) ==
    LET tokenIndex == FindToken(gameState.tokens, tokenId)
        token == gameState.tokens[tokenIndex]
        newPosition == calculateNewPosition(token, gameState.diceValue)
        oldPosition == token.position
        ci == CapturedIndex(gameState.tokens, token, newPosition)
        capturedTokenId == IF ci = 0 THEN NoCapture ELSE gameState.tokens[ci].id
        afterCapture ==
            IF ci = 0 THEN gameState.tokens
            ELSE [gameState.tokens EXCEPT ![ci] =
                    [@ EXCEPT !.position = HOME, !.isInHome = TRUE,
                              !.isInHomeStretch = FALSE]]
        updatedTokens ==
            [afterCapture EXCEPT ![tokenIndex] =
                [token EXCEPT !.position = newPosition,
                              !.isInHome = FALSE,
                              !.isInHomeStretch = (newPosition >= 52 /\ newPosition <= 56),
                              !.isFinished = (newPosition = 57)]]
        moveHistory == Append(gameState.moveHistory,
                          [playerColor |-> token.color, tokenId |-> token.id,
                           from |-> oldPosition, to |-> newPosition,
                           capturedTokenId |-> capturedTokenId])
        winner == checkWinner(updatedTokens)
        rolledSix == gameState.diceValue = 6
        didCapture == capturedTokenId # NoCapture
        shouldContinueTurn == (rolledSix # didCapture) /\ winner = NoWinner
        newConsecutiveSixes == IF rolledSix THEN gameState.consecutiveSixes + 1 ELSE 0
        moved == [gameState EXCEPT !.tokens = updatedTokens,
                                   !.moveHistory = moveHistory,
                                   !.winner = winner,
                                   !.validMoves = <<>>]
    IN IF shouldContinueTurn /\ newConsecutiveSixes < 3
       THEN [moved EXCEPT !.diceValue = NoDice,
                          !.canRollDice = TRUE,
                          !.consecutiveSixes = newConsecutiveSixes]
       ELSE passTurn(moved)

\* A variant that sends home every opposing token on the cell reached.
MoveTokenResult_CaptureAll(gameState, tokenId) ==
    LET tokenIndex == FindToken(gameState.tokens, tokenId)
        token == gameState.tokens[tokenIndex]
        newPosition == calculateNewPosition(token, gameState.diceValue)
        oldPosition == token.position
        ci == CapturedIndex(gameState.tokens, token, newPosition)
        capturedTokenId == IF ci = 0 THEN NoCapture ELSE gameState.tokens[ci].id
        afterCapture ==
            IF ci = 0 THEN gameState.tokens
            ELSE [i \in 1..Len(gameState.tokens) |->
                    IF /\ gameState.tokens[i].position = newPosition
                       /\ gameState.tokens[i].color # token.color
                    THEN [gameState.tokens[i] EXCEPT !.position = HOME, !.isInHome = TRUE,
                                                     !.isInHomeStretch = FALSE]
                    ELSE gameState.tokens[i]]
        updatedTokens ==
            [afterCapture EXCEPT ![tokenIndex] =
                [token EXCEPT !.position = newPosition,
                              !.isInHome = FALSE,
                              !.isInHomeStretch = (newPosition >= 52 /\ newPosition <= 56),
                              !.isFinished = (newPosition = 57)]]
        moveHistory == Append(gameState.moveHistory,
                          [playerColor |-> token.color, tokenId |-> token.id,
                           from |-> oldPosition, to |-> newPosition,
                           capturedTokenId |-> capturedTokenId])
        winner == checkWinner(updatedTokens)
        rolledSix == gameState.diceValue = 6
        didCapture == capturedTokenId # NoCapture
        shouldContinueTurn == (rolledSix \/ didCapture) /\ winner = NoWinner
        newConsecutiveSixes == IF rolledSix THEN gameState.consecutiveSixes + 1 ELSE 0
        moved == [gameState EXCEPT !.tokens = updatedTokens,
                                   !.moveHistory = moveHistory,
                                   !.winner = winner,
                                   !.validMoves = <<>>]
    IN IF shouldContinueTurn /\ newConsecutiveSixes < 3
       THEN [moved EXCEPT !.diceValue = NoDice,
                          !.canRollDice = TRUE,
                          !.consecutiveSixes = newConsecutiveSixes]
       ELSE passTurn(moved)

MoveTokenResult(gameState, tokenId) ==
    LET tokenIndex == FindToken(gameState.tokens, tokenId)
        token == gameState.tokens[tokenIndex]
        newPosition == calculateNewPosition(token, gameState.diceValue)
        oldPosition == token.position
        ci == CapturedIndex(gameState.tokens, token, newPosition)
        capturedTokenId == IF ci = 0 THEN NoCapture ELSE gameState.tokens[ci].id
        afterCapture ==
            IF ci = 0 THEN gameState.tokens
            ELSE [gameState.tokens EXCEPT ![ci] =
                    [@ EXCEPT !.position = HOME, !.isInHome = TRUE,
                              !.isInHomeStretch = FALSE]]
        updatedTokens ==
            [afterCapture EXCEPT ![tokenIndex] =
                [token EXCEPT !.position = newPosition,
                              !.isInHome = FALSE,
                              !.isInHomeStretch = (newPosition >= 52 /\ newPosition <= 56),
                              !.isFinished = (newPosition = 57)]]
        moveHistory == Append(gameState.moveHistory,
                          [playerColor |-> token.color, tokenId |-> token.id,
                           from |-> oldPosition, to |-> newPosition,
                           capturedTokenId |-> capturedTokenId])
        winner == checkWinner(updatedTokens)
        rolledSix == gameState.diceValue = 6
        didCapture == capturedTokenId # NoCapture
        shouldContinueTurn == (rolledSix \/ didCapture) /\ winner = NoWinner
        newConsecutiveSixes == IF rolledSix THEN gameState.consecutiveSixes + 1 ELSE 0
        moved == [gameState EXCEPT !.tokens = updatedTokens,
                                   !.moveHistory = moveHistory,
                                   !.winner = winner,
                                   !.validMoves = <<>>]
    IN IF shouldContinueTurn /\ newConsecutiveSixes < 3
       THEN [moved EXCEPT !.diceValue = NoDice,
                          !.canRollDice = TRUE,
                          !.consecutiveSixes = newConsecutiveSixes]
       ELSE passTurn(moved)

\* ---------------------------------------------------------------- Init
\* No session has data, no socket is connected, nothing has been emitted.
\* (server.to(room).emit reaches nobody until a socket joins the channel.)
WebInit ==
    /\ httpSession = <<>>
    /\ socketToSession = <<>>
    /\ socketRooms = <<>>
    /\ emitted = <<>>

Init ==
    /\ rooms = <<>>
    /\ playerToRoom = <<>>
    /\ now = 0
    /\ res = Idle
    /\ WebInit

\* ------------------------------------------------------ directory actions
\* A variant that never finds the session in the index.
AlreadyInRoom_Never(sessionId) == FALSE

\* this.playerToRoom.has(sessionId)
AlreadyInRoom(sessionId) == sessionId \in DOMAIN playerToRoom

\* roomCode is the code generateRoomCode returns: one no live room has.
createRoom(sessionId, playerColor, maxPlayers, roomCode) ==
    /\ res = Idle
    /\ IF AlreadyInRoom(sessionId)
       THEN Throws("createRoom", "AlreadyInRoom")
       ELSE /\ roomCode \notin DOMAIN rooms
            /\   LET admin == [id |-> uuidv4(sessionId), color |-> playerColor, isReady |-> FALSE,
                               isAdmin |-> TRUE, sessionId |-> sessionId]
                     room == [code |-> roomCode, adminId |-> uuidv4(sessionId), players |-> <<admin>>,
                              maxPlayers |-> maxPlayers, status |-> WAITING,
                              lastActivity |-> now, gameState |-> NoGame]
                 IN /\ rooms' = MapSet(rooms, roomCode, room)
                    /\ playerToRoom' = MapSet(playerToRoom, sessionId, roomCode)
                    /\ res' = Ok("createRoom")
                    /\ UNCHANGED now

\* A variant that does not filter out the colors taken.
AvailableColors_Unfiltered(players) == PlayerColor

\* A variant that lists the free colors last to first.
AvailableColors_LastFirst(players) ==
    LET free == SelectSeq(PlayerColor, LAMBDA c : \A i \in 1..Len(players) : players[i].color # c)
    IN [i \in 1..Len(free) |-> free[Len(free) + 1 - i]]

\* Object.values(PlayerColor).filter(c => !takenColors.includes(c))
AvailableColors(players) ==
    SelectSeq(PlayerColor, LAMBDA c : \A i \in 1..Len(players) : players[i].color # c)

\* A variant that lets one player too many in.
IsFull_OffByOne(room) == Len(room.players) > room.maxPlayers

\* room.players.length >= room.maxPlayers
IsFull(room) == Len(room.players) >= room.maxPlayers

joinRoom(roomCode, sessionId) ==
    /\ res = Idle
    /\ IF AlreadyInRoom(sessionId)
       THEN Throws("joinRoom", "AlreadyInRoom")
       ELSE IF roomCode \notin DOMAIN rooms
       THEN Throws("joinRoom", "RoomNotFound")
       ELSE LET room == rooms[roomCode] IN
            IF room.status # WAITING
            THEN Throws("joinRoom", "RoomNotJoinable")
            ELSE IF IsFull(room)
            THEN Throws("joinRoom", "RoomFull")
            ELSE IF Len(AvailableColors(room.players)) = 0
            THEN Throws("joinRoom", "NoColorAvailable")
            ELSE /\ LET newPlayer == [id |-> uuidv4(sessionId),
                                      color |-> AvailableColors(room.players)[1],
                                      isReady |-> FALSE, isAdmin |-> FALSE,
                                      sessionId |-> sessionId]
                    IN rooms' = MapSet(rooms, roomCode,
                           [room EXCEPT !.players = Append(@, newPlayer),
                                        !.lastActivity = now])
                 /\ playerToRoom' = MapSet(playerToRoom, sessionId, roomCode)
                 /\ res' = Ok("joinRoom")
                 /\ UNCHANGED now

\* A variant that removes the player but hands the admin flag to nobody.
AfterLeave_NoHandover(room, playerIndex) ==
    [room EXCEPT !.players = RemoveAt(room.players, playerIndex),
                 !.lastActivity = now]

\* The room once players[playerIndex] has left it and others remain: the
\* admin flag goes to the new first player when the leaver held it.
AfterLeave(room, playerIndex) ==
    LET wasAdmin == room.players[playerIndex].isAdmin
        rest == RemoveAt(room.players, playerIndex)
    IN [room EXCEPT
          !.players = IF wasAdmin THEN [rest EXCEPT ![1].isAdmin = TRUE] ELSE rest,
          !.adminId = IF wasAdmin THEN rest[1].id ELSE @,
          !.lastActivity = now]

leaveRoom(sessionId) ==
    /\ res = Idle
    /\ IF sessionId \notin DOMAIN playerToRoom
       THEN Throws("leaveRoom", "NotInRoom")
       ELSE LET roomCode == playerToRoom[sessionId] IN
            IF roomCode \notin DOMAIN rooms
            THEN Throws("leaveRoom", "RoomNotFound")
            ELSE LET room == rooms[roomCode]
                     playerIndex == FindPlayerIndex(room.players, sessionId)
                 IN
                 IF playerIndex = 0
                 THEN Throws("leaveRoom", "PlayerNotFound")
                 ELSE /\ playerToRoom' = MapWithout(playerToRoom, {sessionId})
                      /\ IF Len(room.players) = 1
                         THEN rooms' = MapWithout(rooms, {roomCode})
                         ELSE rooms' = MapSet(rooms, roomCode,
                                              AfterLeave(room, playerIndex))
                      /\ res' = Ok("leaveRoom")
                      /\ UNCHANGED now

updatePlayerColor(sessionId, newColor) ==
    /\ res = Idle
    /\ IF sessionId \notin DOMAIN playerToRoom
       THEN Throws("updatePlayerColor", "NotInRoom")
       ELSE LET roomCode == playerToRoom[sessionId] IN
            IF roomCode \notin DOMAIN rooms
            THEN Throws("updatePlayerColor", "RoomNotFound")
            ELSE LET room == rooms[roomCode]
                     playerIndex == FindPlayerIndex(room.players, sessionId)
                 IN
                 IF playerIndex = 0
                 THEN Throws("updatePlayerColor", "PlayerNotFound")
                 ELSE LET player == room.players[playerIndex] IN
                      IF \E i \in 1..Len(room.players) :
                            /\ room.players[i].id # player.id
                            /\ room.players[i].color = newColor
                      THEN Throws("updatePlayerColor", "ColorTaken")
                      ELSE /\ rooms' = MapSet(rooms, roomCode,
                                 [room EXCEPT !.players[playerIndex].color = newColor,
                                              !.lastActivity = now])
                           /\ res' = Ok("updatePlayerColor")
                           /\ UNCHANGED <<playerToRoom, now>>

\* A variant that sets the ready flag instead of flipping it.
togglePlayerReady_SetsReady(sessionId) ==
    /\ res = Idle
    /\ IF sessionId \notin DOMAIN playerToRoom
       THEN Throws("togglePlayerReady", "NotInRoom")
       ELSE LET roomCode == playerToRoom[sessionId] IN
            IF roomCode \notin DOMAIN rooms
            THEN Throws("togglePlayerReady", "RoomNotFound")
            ELSE LET room == rooms[roomCode]
                     playerIndex == FindPlayerIndex(room.players, sessionId)
                 IN
                 IF playerIndex = 0
                 THEN Throws("togglePlayerReady", "PlayerNotFound")
                 ELSE /\ rooms' = MapSet(rooms, roomCode,
                            [room EXCEPT !.players[playerIndex].isReady = TRUE,
                                         !.lastActivity = now])
                      /\ res' = Ok("togglePlayerReady")
                      /\ UNCHANGED <<playerToRoom, now>>

togglePlayerReady(sessionId) ==
    /\ res = Idle
    /\ IF sessionId \notin DOMAIN playerToRoom
       THEN Throws("togglePlayerReady", "NotInRoom")
       ELSE LET roomCode == playerToRoom[sessionId] IN
            IF roomCode \notin DOMAIN rooms
            THEN Throws("togglePlayerReady", "RoomNotFound")
            ELSE LET room == rooms[roomCode]
                     playerIndex == FindPlayerIndex(room.players, sessionId)
                 IN
                 IF playerIndex = 0
                 THEN Throws("togglePlayerReady", "PlayerNotFound")
                 ELSE /\ rooms' = MapSet(rooms, roomCode,
                            [room EXCEPT !.players[playerIndex].isReady = ~@,
                                         !.lastActivity = now])
                      /\ res' = Ok("togglePlayerReady")
                      /\ UNCHANGED <<playerToRoom, now>>

\* A variant that does not look at the ready flags.
AllReady_Unchecked(players) == TRUE

\* room.players.every((p) => p.isReady || p.isAdmin)
AllReady(players) == \A i \in 1..Len(players) : players[i].isReady \/ players[i].isAdmin

\* The exception startGame throws for the session ("ok" for none).
StartGameError(sessionId) ==
    IF sessionId \notin DOMAIN playerToRoom THEN "NotInRoom"
    ELSE IF playerToRoom[sessionId] \notin DOMAIN rooms THEN "RoomNotFound"
    ELSE LET room == rooms[playerToRoom[sessionId]]
             playerIndex == FindPlayerIndex(room.players, sessionId)
         IN IF playerIndex = 0 THEN "PlayerNotFound"
            ELSE IF ~room.players[playerIndex].isAdmin THEN "NotAdmin"
            ELSE IF Len(room.players) < 2 THEN "NotEnoughPlayers"
            ELSE IF ~AllReady(room.players) THEN "NotAllReady"
            ELSE "ok"

\* A variant that installs the game state but leaves the status as it was.
Started_KeepsStatus(room) ==
    [room EXCEPT !.lastActivity = now,
                 !.gameState = <<initializeGame(room.players)>>]

\* The room as startGame leaves it.
Started(room) ==
    [room EXCEPT !.status = PLAYING,
                 !.lastActivity = now,
                 !.gameState = <<initializeGame(room.players)>>]

startGame(sessionId) ==
    /\ res = Idle
    /\ IF StartGameError(sessionId) # "ok"
       THEN Throws("startGame", StartGameError(sessionId))
       ELSE LET roomCode == playerToRoom[sessionId]
                room == rooms[roomCode]
            IN /\ rooms' = MapSet(rooms, roomCode, Started(room))
               /\ res' = Ok("startGame")
               /\ UNCHANGED <<playerToRoom, now>>

\* The checks rollDice and moveToken share before they reach the engine: the
\* exception thrown ("ok" for none).  Reading .id of a players[] slot that
\* does not exist is the runtime's TypeError.
TurnCheckError(sessionId) ==
    IF sessionId \notin DOMAIN playerToRoom THEN "NotInRoom"
    ELSE IF playerToRoom[sessionId] \notin DOMAIN rooms THEN "GameNotFound"
    ELSE LET room == rooms[playerToRoom[sessionId]]
             playerIndex == FindPlayerIndex(room.players, sessionId)
         IN IF ~HasGame(room) THEN "GameNotFound"
            ELSE IF playerIndex = 0 THEN "PlayerNotFound"
            ELSE IF Game(room).currentTurnPlayerIndex + 1 > Len(room.players)
            THEN "TypeError"
            ELSE IF room.players[Game(room).currentTurnPlayerIndex + 1].id
                       # room.players[playerIndex].id
            THEN "NotYourTurn"
            ELSE "ok"

rollDice(sessionId) ==
    /\ res = Idle
    /\ IF TurnCheckError(sessionId) # "ok"
       THEN Throws("rollDice", TurnCheckError(sessionId))
       ELSE LET roomCode == playerToRoom[sessionId]
                room == rooms[roomCode]
            IN IF RollDiceError(Game(room)) # "ok"
               THEN Throws("rollDice", RollDiceError(Game(room)))
               ELSE \E diceValue \in DiceFaces(Game(room)) :
                      /\ rooms' = MapSet(rooms, roomCode,
                            [room EXCEPT
                               !.gameState = <<RollDiceResult(Game(room), diceValue)>>,
                               !.lastActivity = now])
                      /\ res' = Ok("rollDice")
                      /\ UNCHANGED <<playerToRoom, now>>

moveToken(sessionId, tokenId) ==
    /\ res = Idle
    /\ IF TurnCheckError(sessionId) # "ok"
       THEN Throws("moveToken", TurnCheckError(sessionId))
       ELSE LET roomCode == playerToRoom[sessionId]
                room == rooms[roomCode]
            IN IF MoveTokenError(Game(room), tokenId) # "ok"
               THEN Throws("moveToken", MoveTokenError(Game(room), tokenId))
               ELSE /\ Len(Game(room).moveHistory) < MaxMoves
                    /\ rooms' = MapSet(rooms, roomCode,
                          [room EXCEPT
                             !.gameState = <<MoveTokenResult(Game(room), tokenId)>>,
                             !.lastActivity = now])
                    /\ res' = Ok("moveToken")
                    /\ UNCHANGED <<playerToRoom, now>>

\* A variant that also expires a room idle for exactly the threshold.
ExpiredRooms_Inclusive(expiryMinutes) ==
    {code \in DOMAIN rooms : now - rooms[code].lastActivity >= expiryMinutes}

\* The rooms the sweep finds expired at the current time.
ExpiredRooms(expiryMinutes) ==
    {code \in DOMAIN rooms : now - rooms[code].lastActivity > expiryMinutes}

\* A variant that releases no session of the expired rooms.
ReleasedSessions_None(expiredRooms) == {}

\* The session ids of the players of the expired rooms.
ReleasedSessions(expiredRooms) ==
    UNION {{rooms[code].players[i].sessionId : i \in 1..Len(rooms[code].players)} :
              code \in expiredRooms}

cleanupExpiredRooms(expiryMinutes) ==
    /\ res = Idle
    /\ LET expiredRooms == ExpiredRooms(expiryMinutes)
       IN
       /\ playerToRoom' = MapWithout(playerToRoom, ReleasedSessions(expiredRooms))
       /\ rooms' = MapWithout(rooms, expiredRooms)
       /\ res' = Ok("cleanupExpiredRooms")
       /\ UNCHANGED now

\* A call that returns a value and changes nothing.
Returns(op, value) ==
    /\ res' = [op |-> op, err |-> "ok", result |-> value]
    /\ UNCHANGED <<rooms, playerToRoom, now>>

\* The null a lookup returns; a room or a player found is returned as a
\* sequence of length 1.
Null == <<>>

getRoom(roomCode) ==
    /\ res = Idle
    /\ IF roomCode \notin DOMAIN rooms
       THEN Throws("getRoom", "RoomNotFound")
       ELSE Returns("getRoom", <<rooms[roomCode]>>)

\* What getRoomBySessionId returns.
RoomBySessionId(sessionId) ==
    IF sessionId \notin DOMAIN playerToRoom THEN Null
    ELSE IF playerToRoom[sessionId] \notin DOMAIN rooms THEN Null
    ELSE <<rooms[playerToRoom[sessionId]]>>

getRoomBySessionId(sessionId) ==
    /\ res = Idle
    /\ Returns("getRoomBySessionId", RoomBySessionId(sessionId))

\* What getPlayerBySessionId returns.
PlayerBySessionId(sessionId) ==
    LET room == RoomBySessionId(sessionId) IN
    IF room = Null THEN Null
    ELSE IF FindPlayerIndex(room[1].players, sessionId) = 0 THEN Null
    ELSE <<room[1].players[FindPlayerIndex(room[1].players, sessionId)]>>

getPlayerBySessionId(sessionId) ==
    /\ res = Idle
    /\ Returns("getPlayerBySessionId", PlayerBySessionId(sessionId))

\* RoomsService.getValidMoves: the engine's answer for the color of the
\* caller's player.
RoomsService_getValidMoves(sessionId) ==
    /\ res = Idle
    /\ IF sessionId \notin DOMAIN playerToRoom
       THEN Throws("getValidMoves", "NotInRoom")
       ELSE IF playerToRoom[sessionId] \notin DOMAIN rooms
       THEN Throws("getValidMoves", "GameNotFound")
       ELSE LET room == rooms[playerToRoom[sessionId]]
                playerIndex == FindPlayerIndex(room.players, sessionId)
            IN IF ~HasGame(room)
               THEN Throws("getValidMoves", "GameNotFound")
               ELSE IF playerIndex = 0
               THEN Throws("getValidMoves", "PlayerNotFound")
               ELSE Returns("getValidMoves",
                       getValidMoves(Game(room), room.players[playerIndex].color))

\* The outcome of the finished call goes back to the caller.
Respond ==
    /\ res # Idle
    /\ res' = Idle
    /\ UNCHANGED <<rooms, playerToRoom, now>>

\* Time passes between calls.
Tick ==
    /\ res = Idle
    /\ now < MaxTime
    /\ now' = now + 1
    /\ UNCHANGED <<rooms, playerToRoom, res>>

\* ------------------------------------------------------- specifications
\* The inputs the callers hand in are drawn from these sets.
\* Session identifiers (opaque strings).
Sessions == {"s1", "s2", "s3"}
\* Room codes generateRoomCode can draw.
Codes == {"AAAA-0001", "AAAA-0002"}
OneCode == {"AAAA-0001"}
\* expiryMinutes values passed to cleanupExpiredRooms.
Expiries == {0}
\* Every token id a caller can name: `${color}-${i}` for the four colors.
TokenIds == {TokenId(c, i) : c \in ColorSet, i \in 0..3}

\* Spec: every operation of the directory and of the engine, two sessions
\* around one room code.
GameSessions == {"s1", "s2"}
GameCreateColors == {"red"}
GameNewColors == {"green"}
GameTokenIds == {TokenId(c, i) : c \in ColorSet, i \in 0..1}
\* SpecLobby: rooms of capacity 2 and 3 for three sessions.
LobbyCapacities == {MinCapacity, MinCapacity + 1}

Next ==
    \/ \E s \in GameSessions, c \in GameCreateColors, code \in OneCode :
          createRoom(s, c, MinCapacity, code) /\ UNCHANGED web
    \/ \E code \in OneCode, s \in GameSessions : joinRoom(code, s) /\ UNCHANGED web
    \/ \E s \in GameSessions : leaveRoom(s) /\ UNCHANGED web
    \/ \E s \in GameSessions, c \in GameNewColors : updatePlayerColor(s, c) /\ UNCHANGED web
    \/ \E s \in GameSessions : togglePlayerReady(s) /\ UNCHANGED web
    \/ \E s \in GameSessions : startGame(s) /\ UNCHANGED web
    \/ \E s \in GameSessions : rollDice(s) /\ UNCHANGED web
    \/ \E s \in GameSessions, t \in GameTokenIds : moveToken(s, t) /\ UNCHANGED web
    \/ \E e \in Expiries : cleanupExpiredRooms(e) /\ UNCHANGED web
    \/ Tick /\ UNCHANGED web
    \/ Respond /\ UNCHANGED web

Spec == Init /\ [][Next]_vars

\* SpecLobby: the waiting-room operations, three sessions around one room code.
NextLobby ==
    \/ \E s \in Sessions, c \in ColorSet, m \in LobbyCapacities, code \in OneCode :
          createRoom(s, c, m, code) /\ UNCHANGED web
    \/ \E code \in OneCode, s \in Sessions : joinRoom(code, s) /\ UNCHANGED web
    \/ \E s \in Sessions : leaveRoom(s) /\ UNCHANGED web
    \/ \E s \in Sessions, c \in ColorSet : updatePlayerColor(s, c) /\ UNCHANGED web
    \/ \E s \in Sessions : togglePlayerReady(s) /\ UNCHANGED web
    \/ \E s \in Sessions : startGame(s) /\ UNCHANGED web
    \/ Respond /\ UNCHANGED web

SpecLobby == Init /\ [][NextLobby]_vars

\* SpecExpiry: membership and the expiry sweep, three sessions and two codes.
NextExpiry ==
    \/ \E s \in Sessions, c \in ColorSet, m \in LobbyCapacities, code \in Codes :
          createRoom(s, c, m, code) /\ UNCHANGED web
    \/ \E code \in Codes, s \in Sessions : joinRoom(code, s) /\ UNCHANGED web
    \/ \E s \in Sessions : leaveRoom(s) /\ UNCHANGED web
    \/ \E e \in Expiries : cleanupExpiredRooms(e) /\ UNCHANGED web
    \/ Tick /\ UNCHANGED web
    \/ Respond /\ UNCHANGED web

SpecExpiry == Init /\ [][NextExpiry]_vars

\* SpecLookup: a room of two that fills and empties, and the lookups by code
\* and by session.
NextLookup ==
    \/ \E s \in GameSessions, c \in ColorSet, code \in OneCode :
          createRoom(s, c, MinCapacity, code) /\ UNCHANGED web
    \/ \E code \in OneCode, s \in GameSessions : joinRoom(code, s) /\ UNCHANGED web
    \/ \E s \in GameSessions : leaveRoom(s) /\ UNCHANGED web
    \/ \E code \in Codes : getRoom(code) /\ UNCHANGED web
    \/ \E s \in GameSessions : getRoomBySessionId(s) /\ UNCHANGED web
    \/ \E s \in GameSessions : getPlayerBySessionId(s) /\ UNCHANGED web
    \/ Respond /\ UNCHANGED web

SpecLookup == Init /\ [][NextLookup]_vars

\* ------------------------------------------------ mid-game specifications
\* SpecEngine starts in the middle of a two-player game: a layout of the
\* tokens that play can produce, with the next roll pending.  moveHistory
\* holds the moves made since the layout (the engine only appends to it).

\* The ring cells a token of the color can stand on: from its start cell
\* clockwise up to its gateway.
RingCells(c) ==
    {p \in 0..51 : stepsFromTo(START_POS[c], p) <= stepsFromTo(START_POS[c], GATEWAY[c])}

\* Where tokens 1..3 of a player are: all at Home ("home"), all finished
\* ("done"), or token 1 on an unsafe ring cell and the others at Home ("twin").
Shapes == {"home", "done", "twin"}
TwinCell == [red |-> 46, blue |-> 46, green |-> 20, yellow |-> 34]

\* The layouts put token 0 on a safe cell, within MaxToGateway steps of the
\* gateway, or a six away from the cell of a twin.
MaxToGateway == 7
LayoutRing(c) ==
    {p \in RingCells(c) : \/ p \in SAFE_SQUARES
                          \/ stepsFromTo(p, GATEWAY[c]) <= MaxToGateway
                          \/ stepsFromTo(p, TwinCell[c]) = 6}
LayoutPositions(c) == {HOME} \cup LayoutRing(c) \cup (52..57)

\* A token of the color at the position, its flags as moveToken sets them.
TokenAt(color, i, position) ==
    [id |-> TokenId(color, i), color |-> color, position |-> position,
     isInHome |-> (position = HOME),
     isInHomeStretch |-> (position >= 52 /\ position <= 56),
     isFinished |-> (position = 57)]

\* A player who has "won" has all four tokens finished, token 0 included.
PlayerTokens(c, p, shape) ==
    LET rest == IF shape \in {"done", "won"} THEN 57 ELSE HOME
        second == IF shape = "twin" THEN TwinCell[c] ELSE rest
        first == IF shape = "won" THEN 57 ELSE p
    IN <<TokenAt(c, 0, first), TokenAt(c, 1, second), TokenAt(c, 2, rest), TokenAt(c, 3, rest)>>

\* The shapes of the two players and the running count of sixes of a layout:
\* at most one of the three differs from the plain one, or one player has
\* won and the other has three tokens finished (play went on after the win).
LayoutKinds ==
    {<<"home", "home", n>> : n \in 0..2}
       \cup {<<s, "home", 0>> : s \in Shapes} \cup {<<"home", s, 0>> : s \in Shapes}
       \cup {<<"won", "done", 0>>, <<"done", "won", 0>>}

\* The two colors of a layout, in player order.  Green and yellow never meet
\* on the ring, so their layouts are the plain ones.
ColorPairs == {<<"red", "blue">>, <<"green", "yellow">>}
LayoutKindsOf(cs) == IF cs[1] = "red" THEN LayoutKinds ELSE {<<"home", "home", 0>>}

\* Token 0 of the player to act is anywhere; that of the player who waits is
\* at Home or on the ring, where it can be captured.
ActingPositions(c, acting) ==
    IF acting THEN LayoutPositions(c) ELSE {HOME} \cup LayoutRing(c)

\* Tokens of two colors never share an unsafe ring cell (the second to come
\* captures the first).
NoMixedCell(tokens) ==
    \A i, j \in 1..Len(tokens) :
       (/\ tokens[i].color # tokens[j].color
        /\ tokens[i].position = tokens[j].position
        /\ tokens[i].position >= 0 /\ tokens[i].position <= 51)
          => tokens[i].position \in SAFE_SQUARES

LayoutGame(c1, p1, shape1, c2, p2, shape2, idx, sixes) ==
    LET tokens == PlayerTokens(c1, p1, shape1) \o PlayerTokens(c2, p2, shape2)
    IN [currentTurnPlayerIndex |-> idx,
        diceValue |-> NoDice,
        canRollDice |-> TRUE,
        consecutiveSixes |-> sixes,
        tokens |-> tokens,
        winner |-> checkWinner(tokens),
        moveHistory |-> <<>>,
        playerColorOrder |-> <<c1, c2>>,
        validMoves |-> <<>>]

\* A layout play can produce: no mixed unsafe cell, and a running count of
\* sixes only for a player with a token out of Home in a game nobody has won.
LayoutOk(g) ==
    /\ NoMixedCell(g.tokens)
    /\ g.consecutiveSixes > 0 =>
          /\ g.winner = NoWinner
          /\ \E i \in 1..Len(g.tokens) :
                /\ g.tokens[i].color = getCurrentPlayerColor(g)
                /\ ~g.tokens[i].isInHome

LayoutRoom(c1, c2, g) ==
    [code |-> "AAAA-0001", adminId |-> uuidv4("s1"),
     players |-> <<[id |-> uuidv4("s1"), color |-> c1, isReady |-> FALSE,
                    isAdmin |-> TRUE, sessionId |-> "s1"],
                   [id |-> uuidv4("s2"), color |-> c2, isReady |-> TRUE,
                    isAdmin |-> FALSE, sessionId |-> "s2"]>>,
     maxPlayers |-> MinCapacity, status |-> PLAYING,
     lastActivity |-> 0, gameState |-> <<g>>]

InitEngine ==
    /\ \E cs \in ColorPairs, idx \in 0..1 :
          \E k \in LayoutKindsOf(cs),
             p1 \in ActingPositions(cs[1], idx = 0),
             p2 \in ActingPositions(cs[2], idx = 1) :
             LET g == LayoutGame(cs[1], p1, k[1], cs[2], p2, k[2], idx, k[3])
             IN /\ LayoutOk(g)
                /\ rooms = MapSet(<<>>, "AAAA-0001", LayoutRoom(cs[1], cs[2], g))
    /\ playerToRoom = [s \in GameSessions |-> "AAAA-0001"]
    /\ now = 0
    /\ res = Idle
    /\ httpSession = [s \in GameSessions |->
                        [roomCode |-> "AAAA-0001", isAdmin |-> s = "s1"]]
    /\ socketToSession = <<>>
    /\ socketRooms = <<>>
    /\ emitted = <<>>

NextEngine ==
    \/ \E s \in GameSessions : rollDice(s) /\ UNCHANGED web
    \/ \E s \in GameSessions, t \in GameTokenIds : moveToken(s, t) /\ UNCHANGED web
    \/ Respond /\ UNCHANGED web

SpecEngine == InitEngine /\ [][NextEngine]_vars

\* SpecMoves: from the same layouts, the rolls and the question which tokens
\* can move, asked by either player.
NextMoves ==
    \/ \E s \in GameSessions : rollDice(s) /\ UNCHANGED web
    \/ \E s \in GameSessions : RoomsService_getValidMoves(s) /\ UNCHANGED web
    \/ Respond /\ UNCHANGED web

SpecMoves == InitEngine /\ [][NextMoves]_vars

\* SpecPosition: calculateNewPosition alone, called with every token of every
\* color on every cell and every face of the dice; res carries the call.
ProbeTokens == {TokenAt(c, 0, p) : c \in ColorSet, p \in {HOME} \cup (0..57)}

InitPosition ==
    /\ rooms = <<>>
    /\ playerToRoom = <<>>
    /\ now = 0
    /\ res \in {[op |-> "calculateNewPosition", err |-> "called",
                 token |-> t, diceValue |-> d] : t \in ProbeTokens, d \in 1..6}
    /\ WebInit

calculateNewPositionCall ==
    /\ res.op = "calculateNewPosition"
    /\ res.err = "called"
    /\ res' = [op |-> "calculateNewPosition", err |-> "ok",
               token |-> res.token, diceValue |-> res.diceValue,
               result |-> calculateNewPosition(res.token, res.diceValue)]
    /\ UNCHANGED <<rooms, playerToRoom, now>>

NextPosition == calculateNewPositionCall /\ UNCHANGED web

SpecPosition == InitPosition /\ [][NextPosition]_vars

\* ------------------------------------------------------------- properties
\* The calls as steps, whatever their inputs.
CreateCall(s) ==
    \E c \in ColorSet, m \in LobbyCapacities, code \in Codes : createRoom(s, c, m, code)
JoinCall(s) == \E code \in Codes : joinRoom(code, s)
MoveCall(s) == \E t \in TokenIds : moveToken(s, t)

\* The session owns a player of a live room.
InRoom(s) ==
    /\ s \in DOMAIN playerToRoom
    /\ playerToRoom[s] \in DOMAIN rooms
    /\ FindPlayerIndex(rooms[playerToRoom[s]].players, s) # 0
RoomOf(s) == rooms[playerToRoom[s]]
PlayerOf(s) == RoomOf(s).players[FindPlayerIndex(RoomOf(s).players, s)]

\* The session's player sits at players[currentTurnPlayerIndex] of its game.
HoldsTurn(s) ==
    LET idx == Game(RoomOf(s)).currentTurnPlayerIndex
    IN /\ idx + 1 <= Len(RoomOf(s).players)
       /\ RoomOf(s).players[idx + 1].sessionId = s

IsPrefix(a, b) == Len(a) <= Len(b) /\ \A i \in 1..Len(a) : a[i] = b[i]

\* C1: rollDice and moveToken from a session of a room with a game are
\* accepted only when its player is players[currentTurnPlayerIndex]; from any
\* other session of the room they fail with NotYourTurn and change nothing;
\* an accepted call stores exactly the state the rules engine returns.
C1_OnlyTurnHolderActs ==
    [][\A s \in Sessions :
         (InRoom(s) /\ HasGame(RoomOf(s)) /\ (rollDice(s) \/ MoveCall(s))) =>
            IF HoldsTurn(s)
            THEN res'.err = "ok" =>
                   \/ /\ res'.op = "rollDice"
                      /\ \E d \in 1..6 :
                           rooms'[playerToRoom[s]].gameState
                              = <<RollDiceResult(Game(RoomOf(s)), d)>>
                   \/ /\ res'.op = "moveToken"
                      /\ \E t \in TokenIds :
                           /\ MoveTokenError(Game(RoomOf(s)), t) = "ok"
                           /\ rooms'[playerToRoom[s]].gameState
                                 = <<MoveTokenResult(Game(RoomOf(s)), t)>>
            ELSE /\ res'.err = "NotYourTurn"
                 /\ rooms' = rooms
                 /\ playerToRoom' = playerToRoom]_vars

\* C2: in every room the colors of the players are pairwise distinct.
C2_ColorsDistinct ==
    \A c \in DOMAIN rooms :
       \A i, j \in 1..Len(rooms[c].players) :
          i # j => rooms[c].players[i].color # rooms[c].players[j].color

\* C2 witness: a color change was accepted in a room of three players.
C2_Witness ==
    /\ res = Ok("updatePlayerColor")
    /\ \E c \in DOMAIN rooms : Len(rooms[c].players) = 3

\* The places (room code, index) where a player of the session sits.
Owned(s) ==
    {<<c, i>> \in (DOMAIN rooms) \X (1..MaxCapacity) :
        i <= Len(rooms[c].players) /\ rooms[c].players[i].sessionId = s}

\* C3: the session index is exact: a session is mapped iff exactly one player
\* of exactly one live room carries it, and then it is mapped to that room.
C3_SessionIndexExact ==
    /\ DOMAIN playerToRoom \subseteq Sessions
    /\ \A s \in Sessions :
          /\ Cardinality(Owned(s)) <= 1
          /\ s \in DOMAIN playerToRoom <=> Owned(s) # {}
          /\ s \in DOMAIN playerToRoom =>
                \E i \in 1..MaxCapacity : <<playerToRoom[s], i>> \in Owned(s)

\* C3 witness: the sweep has run after time passed, and left one room with
\* two mapped players and no other room.
C3_Witness ==
    /\ res = Ok("cleanupExpiredRooms")
    /\ now > 0
    /\ \E c \in DOMAIN rooms :
          /\ DOMAIN rooms = {c}
          /\ Len(rooms[c].players) = 2
          /\ Cardinality(DOMAIN playerToRoom) = 2

\* C4: createRoom and joinRoom from a session that owns a player fail with
\* AlreadyInRoom and change neither the rooms nor the index (and fail so for
\* no other session); a successful leaveRoom and the expiry of its room both
\* unmap the session, so that it can create or join again.
C4_AlreadyInRoom ==
    [][\A s \in Sessions :
         /\ (CreateCall(s) \/ JoinCall(s)) =>
               /\ res'.err = "AlreadyInRoom" <=> s \in DOMAIN playerToRoom
               /\ s \in DOMAIN playerToRoom =>
                     rooms' = rooms /\ playerToRoom' = playerToRoom
         /\ (leaveRoom(s) /\ res'.err = "ok") => s \notin DOMAIN playerToRoom'
         /\ \A e \in Expiries :
               (/\ cleanupExpiredRooms(e)
                /\ s \in DOMAIN playerToRoom
                /\ playerToRoom[s] \in ExpiredRooms(e)) => s \notin DOMAIN playerToRoom'
         /\ (CreateCall(s) /\ s \notin DOMAIN playerToRoom) => res'.err = "ok"]_vars

\* C4 witness: a join was refused with AlreadyInRoom while two rooms were live.
C4_Witness ==
    /\ res = Err("joinRoom", "AlreadyInRoom")
    /\ Cardinality(DOMAIN rooms) = 2

\* The room has exactly one admin player, and adminId names it.
OneAdmin(room) ==
    /\ Cardinality({i \in 1..Len(room.players) : room.players[i].isAdmin}) = 1
    /\ \A i \in 1..Len(room.players) :
          room.players[i].isAdmin => room.adminId = room.players[i].id

\* C5: every live room has exactly one admin and adminId is that player's id;
\* when the admin leaves a room that stays non-empty, the flag passes to the
\* new first player of the list (and the others keep their places).
C5_OneAdmin ==
    /\ [](\A c \in DOMAIN rooms : OneAdmin(rooms[c]))
    /\ [][\A s \in Sessions :
            (/\ leaveRoom(s) /\ InRoom(s)
             /\ PlayerOf(s).isAdmin
             /\ Len(RoomOf(s).players) > 1) =>
               LET rest == RemoveAt(RoomOf(s).players, FindPlayerIndex(RoomOf(s).players, s))
                   after == rooms'[playerToRoom[s]]
               IN /\ playerToRoom[s] \in DOMAIN rooms'
                  /\ Len(after.players) = Len(rest)
                  /\ after.players[1].isAdmin
                  /\ after.adminId = rest[1].id
                  /\ \A i \in 1..Len(rest) :
                        after.players[i].sessionId = rest[i].sessionId]_vars

\* C5 witness: somebody left a room of three, and the room left behind has
\* two players, the first of them the admin.
C5_Witness ==
    /\ res = Ok("leaveRoom")
    /\ \E c \in DOMAIN rooms :
          /\ Len(rooms[c].players) = 2
          /\ rooms[c].players[1].isAdmin

\* Every room holds between one player and its capacity.
WithinCapacity ==
    \A c \in DOMAIN rooms :
       Len(rooms[c].players) >= 1 /\ Len(rooms[c].players) <= rooms[c].maxPlayers

\* C6 (as stated): every room holds between 1 and maxPlayers players, and a
\* joinRoom into a room that holds maxPlayers players fails with RoomFull and
\* adds nobody.
C6_FullRoomRoomFull ==
    /\ []WithinCapacity
    /\ [][\A s \in Sessions, code \in Codes :
            (/\ joinRoom(code, s)
             /\ code \in DOMAIN rooms
             /\ Len(rooms[code].players) >= rooms[code].maxPlayers) =>
               /\ res'.err = "RoomFull"
               /\ rooms' = rooms]_vars

\* C6 (amended): every room holds between 1 and maxPlayers players, and a
\* joinRoom into a room that holds maxPlayers players fails and adds nobody;
\* it fails with RoomFull when the caller is in no room and the room is
\* Waiting, with AlreadyInRoom or RoomNotJoinable (the earlier checks) otherwise.
C6_FullRoomRejects ==
    /\ []WithinCapacity
    /\ [][\A s \in Sessions, code \in Codes :
            (/\ joinRoom(code, s)
             /\ code \in DOMAIN rooms
             /\ Len(rooms[code].players) >= rooms[code].maxPlayers) =>
               /\ rooms' = rooms
               /\ playerToRoom' = playerToRoom
               /\ res'.err = IF s \in DOMAIN playerToRoom THEN "AlreadyInRoom"
                             ELSE IF rooms[code].status # WAITING THEN "RoomNotJoinable"
                             ELSE "RoomFull"]_vars

\* C6 witness: a join was refused with RoomFull by a room of two.
C6_Witness ==
    /\ res = Err("joinRoom", "RoomFull")
    /\ \E c \in DOMAIN rooms : Len(rooms[c].players) = 2 /\ rooms[c].maxPlayers = 2

\* C7: a room has a game state iff its status is not Waiting.
C7_GameStateIffNotWaiting ==
    \A c \in DOMAIN rooms : HasGame(rooms[c]) <=> rooms[c].status # WAITING

\* C7 witness: a move was made in a Playing room, which carries a game state.
C7_Witness ==
    /\ res = Ok("moveToken")
    /\ \E c \in DOMAIN rooms : rooms[c].status = PLAYING /\ HasGame(rooms[c])

\* C8: once a room has a game state, no operation on the room replaces it by
\* a fresh one or drops tokens, turn index or history: while the room lives it
\* keeps a game state, only rollDice and moveToken change it, and the move
\* history only grows.
C8_GameStateCreatedOnce ==
    [][\A c \in DOMAIN rooms :
         (HasGame(rooms[c]) /\ c \in DOMAIN rooms') =>
            /\ HasGame(rooms'[c])
            /\ IsPrefix(Game(rooms[c]).moveHistory, Game(rooms'[c]).moveHistory)
            /\ res'.op \notin {"rollDice", "moveToken"} =>
                  rooms'[c].gameState = rooms[c].gameState]_vars

\* What startGame asks of the caller's room, read off the state.
CanStart(s) ==
    /\ InRoom(s)
    /\ PlayerOf(s).isAdmin
    /\ Len(RoomOf(s).players) >= 2
    /\ \A i \in 1..Len(RoomOf(s).players) :
          ~RoomOf(s).players[i].isAdmin => RoomOf(s).players[i].isReady

FreshGame(players, g) ==
    /\ Len(g.tokens) = 4 * Len(players)
    /\ \A k \in 1..Len(players), i \in 0..3 :
          LET tok == g.tokens[4 * (k - 1) + i + 1]
          IN /\ tok.id = TokenId(players[k].color, i)
             /\ tok.color = players[k].color
             /\ tok.position = -1
             /\ tok.isInHome /\ ~tok.isInHomeStretch /\ ~tok.isFinished
    /\ g.currentTurnPlayerIndex = 0
    /\ g.diceValue = NoDice
    /\ g.canRollDice
    /\ g.consecutiveSixes = 0
    /\ g.moveHistory = <<>>
    /\ g.winner = NoWinner
    /\ Len(g.playerColorOrder) = Len(players)
    /\ \A k \in 1..Len(players) : g.playerColorOrder[k] = players[k].color

\* C10: a successful startGame on a room with n players sets the status to
\* Playing and installs a game state with exactly 4n tokens, ids
\* '{color}-0'..'{color}-3' per player, all at Home, turn index 0, dice null,
\* rolling allowed, counter 0, empty history, no winner, and the players'
\* colors in player order.
C10_StartInstallsFreshGame ==
    [][\A s \in Sessions :
         (startGame(s) /\ res'.err = "ok") =>
            LET after == rooms'[playerToRoom[s]]
            IN /\ after.status = PLAYING
               /\ after.players = RoomOf(s).players
               /\ HasGame(after)
               /\ FreshGame(RoomOf(s).players, Game(after))]_vars

\* C10 witness: a game was started for three players: twelve tokens.
C10_Witness ==
    /\ res = Ok("startGame")
    /\ \E c \in DOMAIN rooms :
          /\ Len(rooms[c].players) = 3
          /\ HasGame(rooms[c])
          /\ Len(Game(rooms[c]).tokens) = 12

\* ------------------------------------------------- properties of the engine
\* The engine's BadRequestExceptions: the IllegalAction errors of the rules.
IllegalAction ==
    {"CannotRoll", "DiceNotRolled", "TokenNotFound", "NotYourToken",
     "NotValidMove", "InvalidMove"}

GameOf(s) == Game(RoomOf(s))
GameAfter(s) == rooms'[playerToRoom[s]].gameState[1]

\* The session's call reaches the engine: it passes the directory's checks.
ReachesEngine(s) == TurnCheckError(s) = "ok"

\* C11: rolling is disallowed exactly while a rolled value waits for its
\* move; rollDice is then rejected with IllegalAction and changes nothing; an
\* accepted roll either passes the turn or disallows rolling until a move,
\* and only a move made on a pending value is accepted: within a turn roll
\* and move alternate.
C11_RollNeedsPermission ==
    /\ [](\A c \in DOMAIN rooms :
            HasGame(rooms[c]) =>
               (Game(rooms[c]).canRollDice <=> Game(rooms[c]).diceValue = NoDice))
    /\ [][\A s \in GameSessions :
            /\ (res'.op = "rollDice" /\ ReachesEngine(s) /\ rollDice(s)) =>
                  IF ~GameOf(s).canRollDice
                  THEN /\ res'.err = "CannotRoll"
                       /\ res'.err \in IllegalAction
                       /\ rooms' = rooms
                  ELSE /\ res'.err = "ok"
                       /\ GameAfter(s).canRollDice =>
                             GameAfter(s).currentTurnPlayerIndex
                                # GameOf(s).currentTurnPlayerIndex
            /\ (res' = Ok("moveToken") /\ ReachesEngine(s)
                   /\ \E t \in GameTokenIds : moveToken(s, t)) =>
                  ~GameOf(s).canRollDice]_vars

\* C11 witness: a second roll was refused while a six waited for its move.
C11_Witness ==
    /\ res = Err("rollDice", "CannotRoll")
    /\ \E c \in DOMAIN rooms :
          /\ Game(rooms[c]).diceValue = 6
          /\ Len(Game(rooms[c]).validMoves) > 0

\* The session's call is a roll, or a move, that the engine accepts.
RollAccepted(s) ==
    /\ res' = Ok("rollDice") /\ ReachesEngine(s) /\ rollDice(s)
MoveAccepted(s) ==
    /\ res' = Ok("moveToken") /\ ReachesEngine(s)
    /\ \E t \in GameTokenIds : moveToken(s, t)
TurnKept(s) ==
    GameAfter(s).currentTurnPlayerIndex = GameOf(s).currentTurnPlayerIndex

\* C12: the counter of consecutive sixes is 0, 1 or 2 in every game state; a
\* roll made at 2 or more yields one of 1..5 and each of 1..6 can come
\* otherwise; the counter counts the sixes moved in the running turn (a move
\* of a six that keeps the turn adds one, every other move and every pass
\* resets it, a roll that keeps the turn leaves it), so no turn has three
\* sixes in a row.
C12_NoThirdSix ==
    /\ [](\A c \in DOMAIN rooms :
            HasGame(rooms[c]) =>
               Game(rooms[c]).consecutiveSixes \in {0, 1, 2})
    /\ [](\A s \in GameSessions :
            (/\ res = Idle /\ ReachesEngine(s)
             /\ GameOf(s).canRollDice /\ GameOf(s).consecutiveSixes < 2) =>
               \A d \in 1..6 :
                  ENABLED (rollDice(s) /\ GameAfter(s) = RollDiceResult(GameOf(s), d)))
    /\ [][\A s \in GameSessions :
            /\ RollAccepted(s) =>
                  /\ \E d \in 1..6 :
                        /\ GameOf(s).consecutiveSixes >= 2 => d # 6
                        /\ GameAfter(s) = RollDiceResult(GameOf(s), d)
                  /\ GameOf(s).consecutiveSixes >= 2 => GameAfter(s).diceValue # 6
                  /\ GameAfter(s).consecutiveSixes =
                        IF TurnKept(s) THEN GameOf(s).consecutiveSixes ELSE 0
            /\ MoveAccepted(s) =>
                  GameAfter(s).consecutiveSixes =
                     IF TurnKept(s) /\ GameOf(s).diceValue = 6
                     THEN GameOf(s).consecutiveSixes + 1
                     ELSE 0]_vars

\* C12 witness: after two sixes moved in the turn the third roll gave a
\* value below six, which waits for its move.
C12_Witness ==
    /\ res = Ok("rollDice")
    /\ \E c \in DOMAIN rooms :
          /\ Game(rooms[c]).consecutiveSixes = 2
          /\ Game(rooms[c]).diceValue \in 1..5
          /\ Len(Game(rooms[c]).moveHistory) = 1

\* The face gives the player to act no token with a legal destination.
NoLegalMove(g, d) == Len(computeValidMoves(g, getCurrentPlayerColor(g), d)) = 0

\* C13: when an accepted roll yields a face for which the player to act has
\* no token with a legal destination, the stored game state has the turn
\* advanced to the next player, validMoves empty, and the face rolled as its
\* dice value.
C13_PassedRollShowsDice ==
    [][\A s \in GameSessions :
         RollAccepted(s) =>
            \A d \in DiceFaces(GameOf(s)) :
               (NoLegalMove(GameOf(s), d) /\ GameAfter(s) = RollDiceResult(GameOf(s), d)) =>
                  /\ GameAfter(s).currentTurnPlayerIndex =
                        (GameOf(s).currentTurnPlayerIndex + 1)
                           % Len(GameOf(s).playerColorOrder)
                  /\ GameAfter(s).validMoves = <<>>
                  /\ GameAfter(s).diceValue = d]_vars

\* The first of the four cases the token id falls into for the game state
\* ("legal" for none).
MoveCase(g, t) ==
    IF g.diceValue = NoDice THEN "noDice"
    ELSE IF \A i \in 1..Len(g.tokens) : g.tokens[i].id # t THEN "noToken"
    ELSE IF \E i \in 1..Len(g.tokens) :
               g.tokens[i].id = t /\ g.tokens[i].color # getCurrentPlayerColor(g)
    THEN "wrongColor"
    ELSE IF ~SeqContains(g.validMoves, t) THEN "notLegal"
    ELSE "legal"

\* C14: moveToken fails with IllegalAction and leaves the game state (tokens,
\* turn index, dice, counter, history, winner) unchanged when no dice value is
\* pending, when the token id does not exist, when the token is not of the
\* active player's color, and when the token is not in the legal-move set.
C14_IllegalMovesRejected ==
    [][\A s \in GameSessions, t \in GameTokenIds :
         (/\ res'.op = "moveToken" /\ ReachesEngine(s)
          /\ MoveCase(GameOf(s), t) # "legal"
          /\ moveToken(s, t)) =>
            /\ res'.err \in IllegalAction
            /\ rooms' = rooms
            /\ playerToRoom' = playerToRoom
            /\ res'.err = CASE MoveCase(GameOf(s), t) = "noDice" -> "DiceNotRolled"
                             [] MoveCase(GameOf(s), t) = "noToken" -> "TokenNotFound"
                             [] MoveCase(GameOf(s), t) = "wrongColor" -> "NotYourToken"
                             [] MoveCase(GameOf(s), t) = "notLegal" -> "NotValidMove"]_vars

\* C14 witness: with a value pending and a legal move at hand, a move of
\* another token of the player was refused as not legal.
C14_Witness ==
    /\ res = Err("moveToken", "NotValidMove")
    /\ \E c \in DOMAIN rooms :
          /\ Game(rooms[c]).diceValue # NoDice
          /\ Len(Game(rooms[c]).validMoves) > 0

\* The record of the last move made, and the token it moved, in a game state.
LastMove(g) == g.moveHistory[Len(g.moveHistory)]
TokenById(g, id) == g.tokens[FindToken(g.tokens, id)]

\* C15: a token at Home has a legal move iff the dice value is 6, whatever
\* its color: for each face it has a destination iff the face is 6, the
\* destination is the start cell of its color, a pending value lists it as a
\* legal move iff the value is 6, and moving it puts it on that start cell.
C15_HomeLeavesOnSix ==
    /\ [](\A c \in DOMAIN rooms :
            HasGame(rooms[c]) =>
               LET g == Game(rooms[c]) IN
               \A i \in 1..Len(g.tokens) :
                  g.tokens[i].isInHome =>
                     /\ \A d \in 1..6 :
                           /\ calculateNewPosition(g.tokens[i], d) # NoMove <=> d = 6
                           /\ d = 6 => calculateNewPosition(g.tokens[i], d)
                                          = START_POS[g.tokens[i].color]
                     /\ (g.diceValue # NoDice
                          /\ g.tokens[i].color = getCurrentPlayerColor(g)) =>
                           (SeqContains(g.validMoves, g.tokens[i].id) <=> g.diceValue = 6))
    /\ [][\A s \in GameSessions :
            (MoveAccepted(s) /\ LastMove(GameAfter(s)).from = HOME) =>
               LET m == LastMove(GameAfter(s))
                   moved == TokenById(GameAfter(s), m.tokenId)
               IN /\ GameOf(s).diceValue = 6
                  /\ m.to = START_POS[m.playerColor]
                  /\ moved.color = m.playerColor
                  /\ moved.position = START_POS[moved.color]
                  /\ ~moved.isInHome /\ ~moved.isInHomeStretch /\ ~moved.isFinished]_vars

\* C15 witness: a yellow token left Home for cell 27, yellow's start cell.
C15_Witness ==
    /\ res = Ok("moveToken")
    /\ \E c \in DOMAIN rooms :
          LET m == LastMove(Game(rooms[c]))
          IN m.playerColor = "yellow" /\ m.from = HOME /\ m.to = 27

RingReference(c, p, d) ==
    LET s == (GATEWAY[c] - p + 52) % 52
    IN IF d <= s THEN (p + d) % 52
       ELSE IF 52 + (d - s - 1) > 56 THEN NoMove
       ELSE 52 + (d - s - 1)

\* C17: for every token on the shared ring (cells 0..51), every color and
\* every face, calculateNewPosition returns the destination of the reference.
C17_RingAgreesWithReference ==
    (res.op = "calculateNewPosition" /\ res.err = "ok"
       /\ res.token.position >= 0 /\ res.token.position <= 51) =>
          res.result = RingReference(res.token.color, res.token.position, res.diceValue)

\* C17 witness: the call for a green token on cell 50 and a six returned
\* cell 4, around the end of the ring.
C17_Witness ==
    /\ res.op = "calculateNewPosition" /\ res.err = "ok"
    /\ res.token.color = "green" /\ res.token.position = 50
    /\ res.diceValue = 6 /\ res.result = 4

\* The tokens of another color than the mover's that stand on the cell.
Defenders(g, color, cell) ==
    {i \in 1..Len(g.tokens) : g.tokens[i].position = cell /\ g.tokens[i].color # color}

\* C18: a move that lands on a ring cell which is none of the 8 safe cells
\* and holds a token of another color sends such a token back to Home and
\* records its id as capturedTokenId; a move that lands on a safe cell, or on
\* a cell with tokens of the mover's color only, changes no token but the one
\* moved and records no capture.
C18_CaptureOffSafeCells ==
    /\ [](Cardinality(SAFE_SQUARES) = 8)
    /\ [][\A s \in GameSessions :
            MoveAccepted(s) =>
               LET g == GameOf(s)
                   h == GameAfter(s)
                   m == LastMove(h)
                   mover == FindToken(g.tokens, m.tokenId)
                   defenders == Defenders(g, m.playerColor, m.to)
               IN /\ Len(h.tokens) = Len(g.tokens)
                  /\ IF /\ m.to >= 0 /\ m.to <= 51
                        /\ m.to \notin SAFE_SQUARES
                        /\ defenders # {}
                     THEN \E i \in defenders :
                             /\ m.capturedTokenId = g.tokens[i].id
                             /\ h.tokens[i] = [g.tokens[i] EXCEPT !.position = HOME,
                                                                   !.isInHome = TRUE]
                             /\ ~h.tokens[i].isInHomeStretch /\ ~h.tokens[i].isFinished
                             /\ \A j \in 1..Len(g.tokens) :
                                   (j # i /\ j # mover) => h.tokens[j] = g.tokens[j]
                     ELSE /\ m.capturedTokenId = NoCapture
                          /\ \A j \in 1..Len(g.tokens) :
                                j # mover => h.tokens[j] = g.tokens[j]]_vars

\* C18 witness: a red token captured a blue one on cell 46.
C18_Witness ==
    /\ res = Ok("moveToken")
    /\ \E c \in DOMAIN rooms :
          LET m == LastMove(Game(rooms[c]))
          IN /\ m.playerColor = "red" /\ m.to = 46
             /\ m.capturedTokenId # NoCapture
             /\ TokenById(Game(rooms[c]), m.capturedTokenId).color = "blue"
             /\ TokenById(Game(rooms[c]), m.capturedTokenId).isInHome

\* The token is in exactly one zone and its flags say which.
ZoneFlagsMatch(tok) ==
    /\ tok.position = HOME \/ (tok.position >= 0 /\ tok.position <= 57)
    /\ tok.isInHome <=> tok.position = HOME
    /\ tok.isInHomeStretch <=> (tok.position >= 52 /\ tok.position <= 56)
    /\ tok.isFinished <=> tok.position = 57

KeepsTurnByRule(s) ==
    LET six == GameOf(s).diceValue = 6
        capture == LastMove(GameAfter(s)).capturedTokenId # NoCapture
        third == six /\ GameOf(s).consecutiveSixes + 1 >= 3
    IN (six \/ capture) /\ ~third

\* What the turn rule demands of an accepted move by s, given whether the
\* mover keeps the turn.
TurnFollows(s, keeps) ==
    /\ keeps => TurnKept(s)
    /\ ~keeps =>
          GameAfter(s).currentTurnPlayerIndex =
             (GameOf(s).currentTurnPlayerIndex + 1)
                % Len(GameOf(s).playerColorOrder)
    /\ ~TurnKept(s) =>
          /\ GameAfter(s).diceValue = NoDice
          /\ GameAfter(s).canRollDice
          /\ GameAfter(s).consecutiveSixes = 0

\* C20: after every accepted moveToken the acting player keeps the
\* turn if the dice value was 6 or a capture occurred, unless that is a third
\* six in a row; in every other case the turn index advances by one modulo
\* the number of players; and whenever the turn passes, the dice is null,
\* rolling is allowed and the counter of sixes is 0.
C20_TurnContinuation ==
    [][\A s \in GameSessions :
         MoveAccepted(s) => TurnFollows(s, KeepsTurnByRule(s))]_vars

\* The value moved by the accepted move was a six; the move captured.
MovedSix(s) == GameOf(s).diceValue = 6
Captured(s) == LastMove(GameAfter(s)).capturedTokenId # NoCapture
NextIndex(s) ==
    (GameOf(s).currentTurnPlayerIndex + 1) % Len(GameOf(s).playerColorOrder)

AllFinished(g, c) ==
    /\ \A i \in 1..Len(g.tokens) : g.tokens[i].color = c => g.tokens[i].isFinished
    /\ Cardinality({i \in 1..Len(g.tokens) : g.tokens[i].color = c}) = 4

\* C22: a non-null winner names a color whose four tokens are all finished,
\* in every game state; and the accepted move that finishes the fourth token
\* of a color leaves winner set to that color.
C22_WinDetection ==
    /\ [](\A c \in DOMAIN rooms :
            (HasGame(rooms[c]) /\ Game(rooms[c]).winner # NoWinner)
               => AllFinished(Game(rooms[c]), Game(rooms[c]).winner))
    /\ [][\A s \in GameSessions :
            (/\ MoveAccepted(s)
             /\ LastMove(GameAfter(s)).to = 57
             /\ AllFinished(GameAfter(s), LastMove(GameAfter(s)).playerColor))
               => GameAfter(s).winner = LastMove(GameAfter(s)).playerColor]_vars

\* The session is in a room whose game has a winner.
InFinishedGame(s) ==
    /\ s \in DOMAIN playerToRoom
    /\ playerToRoom[s] \in DOMAIN rooms
    /\ HasGame(RoomOf(s))
    /\ GameOf(s).winner # NoWinner

\* C23: once the game of a room has a winner, every rollDice and moveToken
\* of a session of that room is rejected and changes nothing of the room
\* (tokens, turn index, dice and history included).
C23_FinishedGameRejects ==
    [][\A s \in GameSessions :
         (/\ res'.op \in {"rollDice", "moveToken"}
          /\ InFinishedGame(s)
          /\ rollDice(s) \/ \E t \in GameTokenIds : moveToken(s, t))
            => /\ res'.err # "ok"
               /\ rooms' = rooms]_vars

\* RoomsGateway.handleMoveToken sends the "wins!" system message to the room
\* after the move of s that it has just carried out: it does so when the
\* room it got back has a game state with a winner.
WinNoticeSent(s) ==
    /\ MoveAccepted(s)
    /\ HasGame(rooms'[playerToRoom[s]])
    /\ GameAfter(s).winner # NoWinner

\* The accepted move of s finishes the last token of its color in a game
\* that had no winner.
WinningMove(s) ==
    /\ MoveAccepted(s)
    /\ GameOf(s).winner = NoWinner
    /\ LastMove(GameAfter(s)).to = 57
    /\ AllFinished(GameAfter(s), LastMove(GameAfter(s)).playerColor)

\* C24: the win notice is sent by the handling of the move that finishes the
\* winning color's last token and by no other accepted command: no move of
\* a game that already has a winner sends it again.
C24_WinNoticeOnce ==
    [][\A s \in GameSessions : WinNoticeSent(s) <=> WinningMove(s)]_vars

\* The failure the three causes named for joinRoom call for, taken in the
\* order unknown code, status, capacity ("none" when none of them applies).
JoinFailure(code) ==
    IF code \notin DOMAIN rooms THEN "RoomNotFound"
    ELSE IF rooms[code].status # WAITING THEN "RoomNotJoinable"
    ELSE IF Len(rooms[code].players) >= rooms[code].maxPlayers THEN "RoomFull"
    ELSE "none"

\* A failed joinRoom leaves every player list and the session index as they
\* were.
FailedJoinChangesNothing ==
    (res'.op = "joinRoom" /\ res'.err # "ok")
       => rooms' = rooms /\ playerToRoom' = playerToRoom

\* The player list of a room whose game has started does not grow.
StartedRoomNeverGrows ==
    \A c \in DOMAIN rooms :
       (rooms[c].status # WAITING /\ c \in DOMAIN rooms')
          => Len(rooms'[c].players) <= Len(rooms[c].players)

\* C25 as stated: joinRoom fails with NotFound for an unknown code, with
\* RoomNotJoinable for a room that is not Waiting and with RoomFull for a
\* room at capacity; every failed join changes no player list and no session
\* mapping; the player list of a started room never grows.
C25_JoinFailuresAsStated ==
    /\ [][\A s \in Sessions, code \in Codes :
            (res'.op = "joinRoom" /\ joinRoom(code, s) /\ JoinFailure(code) # "none")
               => res'.err = JoinFailure(code)]_vars
    /\ [][FailedJoinChangesNothing /\ StartedRoomNeverGrows]_vars

\* C25 with the order of the checks: a session that is already in a room is
\* refused with AlreadyInRoom whatever the code; for a session in no room the
\* failure is NotFound, RoomNotJoinable or RoomFull as stated; every failed
\* join changes no player list and no session mapping; the player list of a
\* started room never grows.
C25_JoinFailures ==
    /\ [][\A s \in Sessions, code \in Codes :
            (res'.op = "joinRoom" /\ joinRoom(code, s)) =>
               /\ s \in DOMAIN playerToRoom => res'.err = "AlreadyInRoom"
               /\ (s \notin DOMAIN playerToRoom /\ JoinFailure(code) # "none")
                     => res'.err = JoinFailure(code)]_vars
    /\ [][FailedJoinChangesNothing /\ StartedRoomNeverGrows]_vars

\* C25 witness: a session in no room was refused by a started room, which
\* still has the two players it started with.
C25_Witness ==
    /\ res = Err("joinRoom", "RoomNotJoinable")
    /\ \E c \in DOMAIN rooms :
          /\ rooms[c].status = PLAYING
          /\ Len(rooms[c].players) = 2
          /\ \E s \in Sessions : s \notin DOMAIN playerToRoom

\* The color is held by a player of the list.
Held(players, color) == \E i \in 1..Len(players) : players[i].color = color

\* The position of the first color of the enumeration that nobody holds.
FirstFree(players) ==
    CHOOSE k \in 1..Len(PlayerColor) :
       /\ ~Held(players, PlayerColor[k])
       /\ \A j \in 1..(k - 1) : Held(players, PlayerColor[j])

\* C26: an accepted joinRoom appends one player to the end of the room's
\* list and leaves the players before it as they were; the new player is
\* the caller's, is neither ready nor admin, and holds the first color of
\* the enumeration red, blue, green, yellow that no player of the room held.
C26_JoinGivesFirstFreeColor ==
    [][\A s \in Sessions, code \in OneCode :
         (res' = Ok("joinRoom") /\ joinRoom(code, s)) =>
            LET before == rooms[code].players
                after == rooms'[code].players
                new == after[Len(after)]
            IN /\ Len(after) = Len(before) + 1
               /\ SubSeq(after, 1, Len(before)) = before
               /\ new.sessionId = s
               /\ new.color = PlayerColor[FirstFree(before)]
               /\ ~new.isReady /\ ~new.isAdmin
               /\ playerToRoom'[s] = code]_vars

\* C26 witness: the room was created with blue, and the two who joined got
\* red and green, in that order.
C26_Witness ==
    /\ res = Ok("joinRoom")
    /\ \E c \in DOMAIN rooms :
          /\ Len(rooms[c].players) = 3
          /\ rooms[c].players[1].color = "blue"
          /\ rooms[c].players[2].color = "red"
          /\ rooms[c].players[3].color = "green"
          /\ ~rooms[c].players[3].isReady /\ ~rooms[c].players[3].isAdmin

\* C27: when the only player of a room leaves, the room and the leaver's
\* session mapping are gone, so that from then on getRoom by that code finds
\* nothing and both session lookups give null; getRoom fails with NotFound
\* for a code that names no room; for a session that is in no room both
\* lookups return null and leaveRoom fails with NotInRoom, changing no room.
C27_LastLeaveDeletesRoom ==
    /\ [][\A s \in GameSessions :
            (/\ res' = Ok("leaveRoom") /\ leaveRoom(s)
             /\ Len(RoomOf(s).players) = 1)
               => /\ playerToRoom[s] \notin DOMAIN rooms'
                  /\ s \notin DOMAIN playerToRoom'
                  /\ RoomBySessionId(s)' = Null
                  /\ PlayerBySessionId(s)' = Null]_vars
    /\ [][\A code \in Codes :
            (res'.op = "getRoom" /\ getRoom(code) /\ code \notin DOMAIN rooms)
               => res' = Err("getRoom", "RoomNotFound")]_vars
    /\ [][\A s \in GameSessions :
            s \notin DOMAIN playerToRoom =>
               /\ getRoomBySessionId(s) => res'.result = Null
               /\ getPlayerBySessionId(s) => res'.result = Null
               /\ (res'.op = "leaveRoom" /\ leaveRoom(s))
                     => res' = Err("leaveRoom", "NotInRoom") /\ rooms' = rooms]_vars

\* C27 witness: the last player has just left and no room and no session
\* mapping remains.
C27_Witness ==
    /\ res = Ok("leaveRoom")
    /\ rooms = <<>>
    /\ playerToRoom = <<>>

\* The rooms whose last activity is older than the threshold.
OlderThan(threshold) ==
    {c \in DOMAIN rooms : now - rooms[c].lastActivity > threshold}

\* C28: no session is ever mapped to a room that does not exist; and a sweep
\* deletes exactly the rooms older than the threshold and leaves the others
\* as they were, unmaps exactly the sessions of the players of the deleted
\* rooms and leaves the other mappings as they were, after which a createRoom
\* or joinRoom of a freed session is no longer refused as already in a room.
C28_SweepDeletesExpired ==
    /\ [](\A s \in DOMAIN playerToRoom : playerToRoom[s] \in DOMAIN rooms)
    /\ [][\A e \in Expiries :
            (res'.op = "cleanupExpiredRooms" /\ cleanupExpiredRooms(e)) =>
               /\ DOMAIN rooms' = (DOMAIN rooms) \ OlderThan(e)
               /\ \A c \in DOMAIN rooms' : rooms'[c] = rooms[c]
               /\ DOMAIN playerToRoom' =
                     {s \in DOMAIN playerToRoom : playerToRoom[s] \notin OlderThan(e)}
               /\ \A s \in DOMAIN playerToRoom' : playerToRoom'[s] = playerToRoom[s]
               /\ \A c \in OlderThan(e) : \A i \in 1..Len(rooms[c].players) :
                     rooms[c].players[i].sessionId \notin DOMAIN playerToRoom']_vars

\* C28 witness: the sweep ran after time had passed and left one room, active
\* at the current time, with its one mapped player, while another session
\* is free.
C28_Witness ==
    /\ res = Ok("cleanupExpiredRooms")
    /\ now > 0
    /\ Cardinality(DOMAIN rooms) = 1
    /\ \A c \in DOMAIN rooms : rooms[c].lastActivity = now
    /\ Cardinality(DOMAIN playerToRoom) = 1

\* The two calls, with their outcome recorded.
ColorCall(s, c) == res'.op = "updatePlayerColor" /\ updatePlayerColor(s, c)
ReadyCall(s) == res'.op = "togglePlayerReady" /\ togglePlayerReady(s)

\* What an accepted call of s leaves alone: the session index, the other
\* rooms, the other players of its room and their order, and of its room the
\* code, the admin, the capacity, the status and the game state.
OthersUntouched(s) ==
    LET code == playerToRoom[s]
        i == FindPlayerIndex(RoomOf(s).players, s)
    IN /\ playerToRoom' = playerToRoom
       /\ DOMAIN rooms' = DOMAIN rooms
       /\ \A c \in DOMAIN rooms : c # code => rooms'[c] = rooms[c]
       /\ Len(rooms'[code].players) = Len(rooms[code].players)
       /\ \A j \in 1..Len(rooms[code].players) :
             j # i => rooms'[code].players[j] = rooms[code].players[j]
       /\ rooms'[code].code = rooms[code].code
       /\ rooms'[code].adminId = rooms[code].adminId
       /\ rooms'[code].maxPlayers = rooms[code].maxPlayers
       /\ rooms'[code].status = rooms[code].status
       /\ rooms'[code].gameState = rooms[code].gameState

\* What the two calls do to the caller's player and to its room, the room's
\* lastActivity aside: an accepted updatePlayerColor changes the color of the
\* caller's player and nothing else, an accepted togglePlayerReady flips its
\* ready flag and changes nothing else; updatePlayerColor fails with
\* ColorTaken and changes nothing when another player of the room holds the
\* color; both fail with NotInRoom for a session that is in no room.
OwnPlayerOnly(s) ==
    LET i == FindPlayerIndex(RoomOf(s).players, s)
        after == rooms'[playerToRoom[s]].players[i]
    IN /\ \A c \in GameNewColors :
             /\ (ColorCall(s, c) /\ res'.err = "ok") =>
                   /\ OthersUntouched(s)
                   /\ after = [PlayerOf(s) EXCEPT !.color = c]
             /\ (/\ ColorCall(s, c) /\ InRoom(s)
                 /\ \E j \in 1..Len(RoomOf(s).players) :
                       j # i /\ RoomOf(s).players[j].color = c)
                   => res' = Err("updatePlayerColor", "ColorTaken") /\ rooms' = rooms
             /\ (ColorCall(s, c) /\ s \notin DOMAIN playerToRoom)
                   => res' = Err("updatePlayerColor", "NotInRoom") /\ rooms' = rooms
       /\ (ReadyCall(s) /\ res'.err = "ok") =>
             /\ OthersUntouched(s)
             /\ after = [PlayerOf(s) EXCEPT !.isReady = ~PlayerOf(s).isReady]
       /\ (ReadyCall(s) /\ s \notin DOMAIN playerToRoom)
             => res' = Err("togglePlayerReady", "NotInRoom") /\ rooms' = rooms

\* C29 as stated: the two calls change only the caller's own player (its
\* color, respectively its ready flag, which is flipped) and no other
\* player, no field of the room (lastActivity included) and no game state;
\* ColorTaken and NotInRoom as above.
C29_OnlyOwnPlayerChanges ==
    [][\A s \in GameSessions :
         /\ OwnPlayerOnly(s)
         /\ ((\E c \in GameNewColors : ColorCall(s, c)) \/ ReadyCall(s))
               /\ res'.err = "ok"
               => rooms'[playerToRoom[s]].lastActivity = RoomOf(s).lastActivity]_vars

\* C29 with the activity stamp: the two calls change the caller's own player
\* as stated and, of everything else, only the lastActivity of its room,
\* which becomes the current time; ColorTaken and NotInRoom as above.
C29_OwnPlayerAndActivity ==
    [][\A s \in GameSessions :
         /\ OwnPlayerOnly(s)
         /\ ((\E c \in GameNewColors : ColorCall(s, c)) \/ ReadyCall(s))
               /\ res'.err = "ok"
               => rooms'[playerToRoom[s]].lastActivity = now]_vars

\* C29 witness: a player switched its ready flag off again after time had
\* passed, in a room whose other player has changed to green.
C29_Witness ==
    /\ res = Ok("togglePlayerReady")
    /\ now > 0
    /\ \E c \in DOMAIN rooms :
          /\ rooms[c].lastActivity = now
          /\ \E i, j \in 1..Len(rooms[c].players) :
                /\ i # j
                /\ rooms[c].players[i].color = "green"
                /\ ~rooms[c].players[j].isReady /\ ~rooms[c].players[j].isAdmin

\* The tokens of the color that are not finished and have a destination for
\* the dice value.
MovableIds(g, color) ==
    {g.tokens[i].id : i \in {j \in 1..Len(g.tokens) :
                                /\ g.tokens[j].color = color
                                /\ ~g.tokens[j].isFinished
                                /\ calculateNewPosition(g.tokens[j], g.diceValue) # NoMove}}

\* C30: getValidMoves changes no room, game state or session mapping; what
\* it returns lists, each once, exactly the ids of the unfinished tokens of
\* the caller's color that have a legal destination for the pending dice
\* value, and is empty when no dice value is pending.
C30_ValidMovesReadOnly ==
    [][\A s \in GameSessions :
         (res'.op = "getValidMoves" /\ RoomsService_getValidMoves(s)) =>
            /\ rooms' = rooms /\ playerToRoom' = playerToRoom
            /\ (InRoom(s) /\ HasGame(RoomOf(s))) =>
                  /\ res'.err = "ok"
                  /\ GameOf(s).diceValue = NoDice => res'.result = <<>>
                  /\ GameOf(s).diceValue # NoDice =>
                        /\ {res'.result[i] : i \in 1..Len(res'.result)}
                              = MovableIds(GameOf(s), PlayerOf(s).color)
                        /\ Len(res'.result)
                              = Cardinality(MovableIds(GameOf(s), PlayerOf(s).color))]_vars

\* C30 witness: with a value pending, a player was told that two of its
\* tokens can move.
C30_Witness ==
    /\ res.op = "getValidMoves" /\ res.err = "ok"
    /\ Len(res.result) = 2
    /\ \E c \in DOMAIN rooms : Game(rooms[c]).diceValue # NoDice

\* The ids of the tokens, in token order.
TokenIdsOf(g) == [i \in 1..Len(g.tokens) |-> g.tokens[i].id]

\* The places of the tokens whose position the step changes.
Displaced(g, h) == {i \in 1..Len(g.tokens) : h.tokens[i].position # g.tokens[i].position}

\* C33: a game has four tokens for each color of its player order and no
\* others; no step of a room other than a start of the game changes the list
\* of token ids of its game; a roll changes no token; an accepted move changes the position of the moved
\* token and of at most one other token, which goes to Home, and appends
\* exactly one record to the move history.
C33_TokensConserved ==
    /\ [](\A c \in DOMAIN rooms :
            HasGame(rooms[c]) =>
               LET g == Game(rooms[c]) IN
               /\ Len(g.tokens) = 4 * Len(g.playerColorOrder)
               /\ \A k \in 1..Len(g.playerColorOrder), n \in 0..3 :
                     \E i \in 1..Len(g.tokens) :
                        /\ g.tokens[i].id = TokenId(g.playerColorOrder[k], n)
                        /\ g.tokens[i].color = g.playerColorOrder[k])
    /\ [][\A c \in DOMAIN rooms :
            (HasGame(rooms[c]) /\ c \in DOMAIN rooms' /\ res'.op # "startGame") =>
               /\ HasGame(rooms'[c])
               /\ TokenIdsOf(Game(rooms'[c])) = TokenIdsOf(Game(rooms[c]))
               /\ res'.op = "rollDice" => Game(rooms'[c]).tokens = Game(rooms[c]).tokens]_vars
    /\ [][\A s \in GameSessions :
            MoveAccepted(s) =>
               LET g == GameOf(s)
                   h == GameAfter(s)
                   m == LastMove(h)
                   others == {i \in Displaced(g, h) : g.tokens[i].id # m.tokenId}
               IN /\ h.moveHistory = Append(g.moveHistory, m)
                  /\ \E i \in Displaced(g, h) : g.tokens[i].id = m.tokenId
                  /\ Cardinality(others) <= 1
                  /\ \A i \in others :
                        /\ h.tokens[i].position = HOME
                        /\ h.tokens[i].id = m.capturedTokenId
                  /\ \A i \in 1..Len(g.tokens) :
                        i \notin Displaced(g, h) => h.tokens[i] = g.tokens[i]]_vars

\* C33 witness: a move onto a cell where two tokens of the other color
\* stood sent one of them home; the other is still there.
C33_Witness ==
    /\ res = Ok("moveToken")
    /\ \E c \in DOMAIN rooms :
          LET g == Game(rooms[c])
              m == LastMove(g)
          IN /\ m.capturedTokenId # NoCapture
             /\ TokenById(g, m.capturedTokenId).position = HOME
             /\ \E i \in 1..Len(g.tokens) :
                   /\ g.tokens[i].color # m.playerColor
                   /\ g.tokens[i].position = m.to
             /\ Len(g.tokens) = 8

\* C39: in every game state no ring cell outside the safe cells holds tokens
\* of two colors; an accepted move that lands on such a cell leaves no token
\* of another color on it.
C39_NoMixedUnsafeCell ==
    /\ [](\A c \in DOMAIN rooms :
            HasGame(rooms[c]) => NoMixedCell(Game(rooms[c]).tokens))
    /\ [][\A s \in GameSessions :
            (/\ MoveAccepted(s)
             /\ LastMove(GameAfter(s)).to >= 0 /\ LastMove(GameAfter(s)).to <= 51
             /\ LastMove(GameAfter(s)).to \notin SAFE_SQUARES)
               => \A i \in 1..Len(GameAfter(s).tokens) :
                     GameAfter(s).tokens[i].position = LastMove(GameAfter(s)).to
                        => GameAfter(s).tokens[i].color
                              = LastMove(GameAfter(s)).playerColor]_vars

\* The ring steps from the start cell of its color that a ring token has
\* behind it.
Travelled(token) == stepsFromTo(START_POS[token.color], token.position)

\* C38: for each of the four colors the gateway is 51 ring steps from the
\* start cell: a token on a ring cell between the start cell and the gateway
\* of its color that has at most 51 steps behind it once the dice value is
\* added stays on the ring, that many steps from its start cell; beyond the
\* 51st step a destination, when it has one, is the lane cell (or the
\* finish, 57) that counts its steps from the start cell.
C38_SamePathLength ==
    (res.op = "calculateNewPosition" /\ res.err = "ok"
       /\ res.token.position \in RingCells(res.token.color)) =>
          LET steps == Travelled(res.token) + res.diceValue
          IN IF steps <= 51
             THEN /\ res.result >= 0 /\ res.result <= 51
                  /\ stepsFromTo(START_POS[res.token.color], res.result) = steps
             ELSE res.result # NoMove => res.result = steps

\* C37: once the game of a room has a winner, no accepted roll or move
\* changes the winner to another color or back to null.
C37_WinnerStable ==
    [][\A c \in DOMAIN rooms :
         (/\ res'.op \in {"rollDice", "moveToken"} /\ res'.err = "ok"
          /\ HasGame(rooms[c]) /\ Game(rooms[c]).winner # NoWinner
          /\ c \in DOMAIN rooms')
            => /\ HasGame(rooms'[c])
               /\ Game(rooms'[c]).winner = Game(rooms[c]).winner]_vars

\* C36: in every stored game state canRollDice holds iff diceValue is null
\* iff validMoves is empty; and while a dice value is pending, validMoves is
\* not empty and lists, each once, exactly the unfinished tokens of the color
\* in turn that have a destination for that value in the current layout.
C36_PhaseInvariant ==
    \A c \in DOMAIN rooms :
       HasGame(rooms[c]) =>
          LET g == Game(rooms[c]) IN
          /\ g.canRollDice <=> g.diceValue = NoDice
          /\ g.diceValue = NoDice <=> g.validMoves = <<>>
          /\ g.diceValue # NoDice =>
                /\ {g.validMoves[i] : i \in 1..Len(g.validMoves)}
                      = MovableIds(g, getCurrentPlayerColor(g))
                /\ Len(g.validMoves) = Cardinality(MovableIds(g, getCurrentPlayerColor(g)))
                /\ Len(g.validMoves) > 0

\* C36 witness: a roll left a value pending with two tokens to choose from.
C36_Witness ==
    /\ res = Ok("rollDice")
    /\ \E c \in DOMAIN rooms :
          LET g == Game(rooms[c]) IN
          /\ g.diceValue # NoDice /\ ~g.canRollDice
          /\ Len(g.validMoves) = 2

\* C34: in every Playing room the player the directory takes for the one in
\* turn, players[currentTurnPlayerIndex], exists, and its color is the color
\* the engine lets move, playerColorOrder[currentTurnPlayerIndex].
C34_TurnHolderAgrees ==
    \A c \in DOMAIN rooms :
       (rooms[c].status = PLAYING /\ HasGame(rooms[c])) =>
          LET idx == Game(rooms[c]).currentTurnPlayerIndex IN
          /\ idx + 1 <= Len(rooms[c].players)
          /\ rooms[c].players[idx + 1].color = getCurrentPlayerColor(Game(rooms[c]))

\* The directory and the engine would accept a command of the session: a
\* roll while rolling is allowed, otherwise a move of some token.
CanAct(s) ==
    /\ TurnCheckError(s) = "ok"
    /\ IF GameOf(s).canRollDice
       THEN RollDiceError(GameOf(s)) = "ok"
       ELSE \E t \in TokenIds : MoveTokenError(GameOf(s), t) = "ok"

\* C35: in every Playing room whose game has no winner, some session of the
\* room has a roll or a move that is accepted.
C35_GameCanProgress ==
    \A c \in DOMAIN rooms :
       (rooms[c].status = PLAYING /\ HasGame(rooms[c])
          /\ Game(rooms[c]).winner = NoWinner) =>
             \E i \in 1..Len(rooms[c].players) : CanAct(rooms[c].players[i].sessionId)

\* ------------------------------------------------------- transport layer
\* The REST controller keeps three fields in the caller's express session
\* (playerId, roomCode, isAdmin), set together and deleted together: a
\* session with data is a key of httpSession.
\* RoomSessionGuard: session.playerId && session.roomCode.
RoomSessionGuard(sessionId) == sessionId \in DOMAIN httpSession

\* AdminGuard: session.playerId && session.isAdmin.
AdminGuard(sessionId) ==
    /\ sessionId \in DOMAIN httpSession
    /\ httpSession[sessionId].isAdmin

\* A guard that throws: the handler is not entered.
Unauthorized(op) ==
    /\ res = Idle
    /\ Throws(op, "Unauthorized")
    /\ UNCHANGED web

\* server.to(roomCode): the sockets in the channel once the handler has done
\* its joins.
InChannel(roomCode) == {k \in DOMAIN socketRooms' : roomCode \in socketRooms'[k]}

\* One emit: the event, the channel it is addressed to, the sockets it
\* reaches, and the room it carries (as the handler leaves it), if any.
Emit(event, roomCode, receivers) ==
    [event |-> event, to |-> roomCode, receivers |-> receivers,
     room |-> IF roomCode \in DOMAIN rooms' THEN <<rooms'[roomCode]>> ELSE Null]

\* A variant that sends the room as it was before the call.
RoomEvent_Stale(event, roomCode) ==
    [event |-> event, to |-> roomCode, receivers |-> InChannel(roomCode),
     room |-> IF roomCode \in DOMAIN rooms THEN <<rooms[roomCode]>> ELSE Null]

\* this.server.to(roomCode).emit(event, { room }) and its like.
RoomEvent(event, roomCode) == Emit(event, roomCode, InChannel(roomCode))

\* client.emit(event, ...): to the one socket, addressed to no channel.
ToClient(event, socketId) ==
    [event |-> event, to |-> "", receivers |-> {socketId}, room |-> Null]

\* sendSystemMessage(roomCode, ...)
sendSystemMessage(roomCode) == RoomEvent("newMessage", roomCode)

\* RoomsGateway.notifyPlayerJoined
notifyPlayerJoined(roomCode) ==
    IF roomCode \in DOMAIN rooms'
    THEN <<RoomEvent("roomUpdated", roomCode)>>
    ELSE <<>>

\* RoomsGateway.notifyPlayerLeft: the catch branch is the room deleted with
\* its last player.
notifyPlayerLeft(roomCode) ==
    IF roomCode \in DOMAIN rooms'
    THEN <<RoomEvent("roomUpdated", roomCode), sendSystemMessage(roomCode)>>
    ELSE <<RoomEvent("roomDeleted", roomCode)>>

\* RoomsGateway.notifyGameStarted
notifyGameStarted(roomCode) ==
    <<RoomEvent("gameStarted", roomCode), sendSystemMessage(roomCode)>>

\* POST /rooms/create
RoomsController_createRoom(sessionId, playerColor, maxPlayers, roomCode) ==
    /\ createRoom(sessionId, playerColor, maxPlayers, roomCode)
    /\ httpSession' = IF res'.err = "ok"
                      THEN MapSet(httpSession, sessionId,
                                  [roomCode |-> roomCode, isAdmin |-> TRUE])
                      ELSE httpSession
    /\ emitted' = <<>>
    /\ UNCHANGED <<socketToSession, socketRooms>>

\* POST /rooms/join
RoomsController_joinRoom(roomCode, sessionId) ==
    /\ joinRoom(roomCode, sessionId)
    /\ httpSession' = IF res'.err = "ok"
                      THEN MapSet(httpSession, sessionId,
                                  [roomCode |-> roomCode, isAdmin |-> FALSE])
                      ELSE httpSession
    /\ UNCHANGED <<socketToSession, socketRooms>>
    /\ emitted' = IF res'.err = "ok" THEN notifyPlayerJoined(roomCode) ELSE <<>>

\* POST /rooms/leave, behind RoomSessionGuard.
RoomsController_leaveRoom(sessionId) ==
    IF ~RoomSessionGuard(sessionId)
    THEN Unauthorized("leaveRoom")
    ELSE /\ leaveRoom(sessionId)
         /\ httpSession' = IF res'.err = "ok"
                           THEN MapWithout(httpSession, {sessionId})
                           ELSE httpSession
         /\ UNCHANGED <<socketToSession, socketRooms>>
         /\ emitted' = IF res'.err = "ok"
                       THEN notifyPlayerLeft(httpSession[sessionId].roomCode)
                       ELSE <<>>

\* POST /rooms/start, behind RoomSessionGuard and AdminGuard.
RoomsController_startGame(sessionId) ==
    IF ~(RoomSessionGuard(sessionId) /\ AdminGuard(sessionId))
    THEN Unauthorized("startGame")
    ELSE /\ startGame(sessionId)
         /\ UNCHANGED <<httpSession, socketToSession, socketRooms>>
         /\ emitted' = IF res'.err = "ok"
                       THEN notifyGameStarted(httpSession[sessionId].roomCode)
                       ELSE <<>>

\* handshake.auth.sessionId when the client sends none.
NoAuth == ""

\* RoomsGateway.handleConnection: a new socket, with the session id its
\* client sends.  A socket of a session that is in a room joins the room's
\* channel.
handleConnection(socketId, sessionId) ==
    /\ res = Idle
    /\ socketId \notin DOMAIN socketToSession
    /\ UNCHANGED <<rooms, playerToRoom, now, httpSession>>
    /\ IF sessionId = NoAuth
       THEN /\ res' = Err("handleConnection", "AuthenticationRequired")
            /\ emitted' = <<ToClient("error", socketId)>>
            /\ UNCHANGED <<socketToSession, socketRooms>>
       ELSE /\ res' = Ok("handleConnection")
            /\ socketToSession' = MapSet(socketToSession, socketId, sessionId)
            /\ IF RoomBySessionId(sessionId) # Null /\ PlayerBySessionId(sessionId) # Null
               THEN LET code == RoomBySessionId(sessionId)[1].code IN
                    /\ socketRooms' = MapSet(socketRooms, socketId, {code})
                    /\ emitted' = <<ToClient("roomState", socketId),
                                    RoomEvent("roomUpdated", code)>>
               ELSE /\ socketRooms' = MapSet(socketRooms, socketId, {})
                    /\ emitted' = <<ToClient("connected", socketId)>>

\* RoomsGateway.handleDisconnect: socket.io has the socket leave its channels.
handleDisconnect(socketId) ==
    /\ res = Idle
    /\ socketId \in DOMAIN socketToSession
    /\ UNCHANGED <<rooms, playerToRoom, now, httpSession>>
    /\ res' = Ok("handleDisconnect")
    /\ socketToSession' = MapWithout(socketToSession, {socketId})
    /\ socketRooms' = MapWithout(socketRooms, {socketId})
    /\ LET sessionId == socketToSession[socketId] IN
       emitted' = IF RoomBySessionId(sessionId) # Null /\ PlayerBySessionId(sessionId) # Null
                  THEN <<RoomEvent("playerDisconnected", RoomBySessionId(sessionId)[1].code)>>
                  ELSE <<>>

\* @SubscribeMessage("joinRoom"): the socket subscribes to the channel of the
\* room its session is in.
handleJoinRoom(socketId, roomCode) ==
    /\ res = Idle
    /\ socketId \in DOMAIN socketToSession
    /\ UNCHANGED <<rooms, playerToRoom, now, httpSession, socketToSession>>
    /\ LET sessionId == socketToSession[socketId] IN
       IF RoomBySessionId(sessionId) = Null \/ PlayerBySessionId(sessionId) = Null
       THEN /\ res' = Err("handleJoinRoom", "NotInRoom")
            /\ UNCHANGED socketRooms
            /\ emitted' = <<>>
       ELSE IF RoomBySessionId(sessionId)[1].code # roomCode
       THEN /\ res' = Err("handleJoinRoom", "RoomCodeMismatch")
            /\ UNCHANGED socketRooms
            /\ emitted' = <<>>
       ELSE /\ res' = Ok("handleJoinRoom")
            /\ socketRooms' = [socketRooms EXCEPT ![socketId] = @ \cup {roomCode}]
            /\ emitted' = <<ToClient("roomState", socketId),
                            RoomEvent("roomUpdated", roomCode),
                            sendSystemMessage(roomCode)>>

\* @SubscribeMessage("toggleReady")
handleReadyToggle(socketId) ==
    /\ socketId \in DOMAIN socketToSession
    /\ togglePlayerReady(socketToSession[socketId])
    /\ UNCHANGED <<httpSession, socketToSession, socketRooms>>
    /\ emitted' = IF res'.err = "ok"
                  THEN LET code == playerToRoom[socketToSession[socketId]] IN
                       <<RoomEvent("roomUpdated", code), sendSystemMessage(code)>>
                  ELSE <<>>

\* @SubscribeMessage("startGame")
handleStartGame(socketId) ==
    /\ socketId \in DOMAIN socketToSession
    /\ startGame(socketToSession[socketId])
    /\ UNCHANGED <<httpSession, socketToSession, socketRooms>>
    /\ emitted' = IF res'.err = "ok"
                  THEN LET code == playerToRoom[socketToSession[socketId]] IN
                       <<RoomEvent("gameStarted", code), sendSystemMessage(code)>>
                  ELSE <<>>

\* The reply goes back and the emits of the call are on their way.
Delivered ==
    /\ Respond
    /\ emitted' = <<>>
    /\ UNCHANGED <<httpSession, socketToSession, socketRooms>>

\* SpecGateway: the REST controller and the WebSocket gateway in front of the
\* directory while rooms wait and start: three sessions around rooms of two,
\* one socket that any of them can open, two room codes.
SocketIds == {"k1"}
GatewayCodes == Codes

NextGateway ==
    \/ \E s \in Sessions, c \in GameCreateColors, code \in GatewayCodes :
          RoomsController_createRoom(s, c, MinCapacity, code)
    \/ \E code \in GatewayCodes, s \in Sessions : RoomsController_joinRoom(code, s)
    \/ \E s \in Sessions : RoomsController_leaveRoom(s)
    \/ \E s \in Sessions : RoomsController_startGame(s)
    \/ \E k \in SocketIds, s \in Sessions \cup {NoAuth} : handleConnection(k, s)
    \/ \E k \in SocketIds : handleDisconnect(k)
    \/ \E k \in SocketIds, code \in GatewayCodes : handleJoinRoom(k, code)
    \/ \E k \in SocketIds : handleReadyToggle(k)
    \/ \E k \in SocketIds : handleStartGame(k)
    \/ Delivered

SpecGateway == Init /\ [][NextGateway]_vars

\* C40: the session flag AdminGuard consults is set exactly for the session
\* whose player the directory marks as admin, so the REST start is open to
\* whoever the WebSocket startGame is open to.
C40_RestAdminAgrees ==
    \A s \in DOMAIN playerToRoom :
       PlayerBySessionId(s) # Null =>
          (AdminGuard(s) <=> PlayerBySessionId(s)[1].isAdmin)

\* The room-addressed notifications a client acts on.
RoomNotices == {"roomUpdated", "gameStateUpdated", "newMessage", "gameStarted"}

\* C31: a room-addressed notification reaches only sockets whose session
\* belongs, at that moment, to the room it is addressed to (the notice of a
\* leave, which the leaver's own socket may still see, is not counted).
C31_RoomScoped ==
    res.op # "leaveRoom" =>
       \A i \in 1..Len(emitted) :
          emitted[i].event \in RoomNotices =>
             \A k \in emitted[i].receivers :
                /\ k \in DOMAIN socketToSession
                /\ socketToSession[k] \in DOMAIN playerToRoom
                /\ playerToRoom[socketToSession[k]] = emitted[i].to

\* The seats of a room hold different sessions and different colors, and
\* there are no more of them than maxPlayers.
SeatsConsistent(room) ==
    /\ Len(room.players) <= room.maxPlayers
    /\ \A i, j \in 1..Len(room.players) :
          i # j => /\ room.players[i].color # room.players[j].color
                   /\ room.players[i].sessionId # room.players[j].sessionId

====
